---- MODULE Spec2Model ----
(***************************************************************************)
(* Salesforce bulk/REST hybrid sync engine (source-salesforce, async       *)
(* streams), and the declarative component factory of the CDK.            *)
(*                                                                         *)
(* These state machines share this module:                                 *)
(*   Spec      the Sync Orchestrator: streams read in catalog order,       *)
(*             checkpointing, graceful stop on a rate limit;               *)
(*   SpecBulk  one BulkSalesforceStream.read_records call for one slice:   *)
(*             create_stream_job, wait_for_job, the locator chain of       *)
(*             result pages, abort/delete of the job, fallback to REST;    *)
(*   SpecRest  the construction of one stream: the Stream Selector and,    *)
(*             for a REST stream, chunk_properties property by property;   *)
(*   SpecMerge the read of a REST stream with too many properties: the     *)
(*             pages of every property chunk merged by primary key;        *)
(*   SpecCsv   the CSV Chunk Reader: download_data into a temporary file   *)
(*             and read_with_chunks row by row, for one result page;       *)
(*   SpecCheck check_connection: login, then discovery;                    *)
(*   SpecSlices stream_slices: time slices and sub-stream batches;         *)
(*   SpecFactory DeclarativeComponentFactory: resolve and create_component *)
(*             on one definition;                                          *)
(*   SpecConstructor one call of ComponentConstructor.build.               *)
(***************************************************************************)
EXTENDS Integers, Sequences, FiniteSets, TLC

VARIABLES
    \* ---- Sync Orchestrator ----
    status,      \* stream name -> NotStarted | SlicingInProgress | ReadingRecords | Completed | RateLimited | Failed
    cur,         \* index in Catalog of the stream being read
    slice,       \* stream name -> number of the slice being read (0 before the first)
    counter,     \* stream name -> record counter of the checkpointing loop
    cursor,      \* stream name -> Sync State entry of the stream (cursor value)
    out,         \* messages emitted to the consumer, in order
    readLog,     \* stream name -> records the stream's read has produced, in order
    invoked,     \* stream name -> number of calls of the stream's read/request_params
    sync,        \* running | succeeded | failed
    interval,    \* state_checkpoint_interval
    \* ---- Bulk read of one slice ----
    pc,          \* position of read_records
    numPages,    \* number of result pages the completed job holds
    attempt,     \* jobs created so far by execute_job
    elapsed,     \* polls spent in the current wait_for_job
    polls,       \* status polls issued over the whole read
    nonTerminal, \* status polls answered UploadComplete or InProgress
    lastPoll,    \* answer of the last status poll
    locator,     \* locator the next results request carries
    fetchLog,    \* locators carried by the results requests, in order
    records,     \* records yielded by read_records, in order
    result,      \* none | ok | BulkFailed | HttpError | ConfigError | ParseError
    errBody,     \* body/message carried by the raised error
    logged,      \* error messages written to the log
    liveJobs,    \* ids of created jobs not yet deleted remotely
    abortedJobs, \* ids of jobs aborted (PATCH)
    jobState,    \* Export Job state of every job of this read, "none" before it is created
    restReads,   \* calls of the standard (REST) instance's read_records
    createResp,  \* answer of the last job-creation request
    createRet,   \* what the last create_stream_job call did: none | job | None | raised
    \* ---- Stream Selector and Property Chunker ----
    entity,      \* Entity Descriptor of the stream being built: name, fields, pk
    strategy,    \* none | Bulk | Rest | Error: what generate_stream answered
    cPc,         \* build | chunk | done
    cIdx,        \* chunk_properties: index of the property it looks at next
    cSummary,    \* chunk_properties: summary_length
    cLocal,      \* chunk_properties: local_properties (indices of fields)
    cChunks,     \* chunk_properties: chunks yielded so far
    \* ---- Read of the property chunks ----
    serverKeys,  \* chunk -> primary keys the chunk's query matches
    pageSize,    \* chunk -> records per page of the chunk's query
    fetched,     \* chunk -> pages of the chunk read so far
    acc,         \* records_by_primary_key: primary key -> merged record
    keyOrder,    \* primary keys in the order they were first seen
    emitted,     \* records yielded by the read, in order
    mPc,         \* reading | done
    \* ---- CSV Chunk Reader ----
    payload,     \* body of the results response, a sequence of characters
    tmpFile,     \* the temporary result file: whether it exists, and its content
    csvPc,       \* wait | download | open | rows | done
    csvPos,      \* data rows the reader has gone past
    csvOut,      \* row mappings yielded by the current read_with_chunks
    csvReads,    \* outcome of every finished read of the page, in order
    csvResult,   \* none | ok | ParseError | BulkFailed
    \* ---- check_connection ----
    loginResp,   \* answer of the login request
    discoveryResp, \* answer of the discovery request
    checkPc,     \* login | discover | done
    checkRet,    \* what check_connection returned or raised
    \* ---- stream_slices ----
    startDate,   \* start_date of the config
    savedCursor, \* cursor of the saved state, NoCursor if none
    now,         \* the time the slices are asked for
    batchSize,   \* SLICE_BATCH_SIZE
    sliceFrom,   \* start of the next time slice
    timeSlices,  \* time slices yielded so far
    slPc,        \* slicing | parents | done
    parentsRead, \* parent records read so far
    batch,       \* parents gathered for the next slice
    subSlices,   \* slices of the sub-stream yielded so far
    \* ---- DeclarativeComponentFactory ----
    componentDefinition, \* the mapping the caller holds
    passed,      \* the mapping the last call was handed, as it was then
    instantiateFlag, \* the instantiate flag
    resolved,    \* what resolve returned
    component,   \* what create_component(...)() returned
    facPc,       \* idle | start | resolved | created
    \* ---- ComponentConstructor ----
    buildArgs,   \* the arguments of ComponentConstructor.build
    resolveCalls, \* the calls of resolve_dependencies, in order
    resolvedDependencies, \* what resolve_dependencies returned
    instances,   \* the instances of the component class created
    ccRaised,    \* the call that raised, "" if none
    ccPc         \* idle | build | resolving | resolved | built | failed

orchVars == <<status, cur, slice, counter, cursor, out, readLog, invoked, sync, interval>>
bulkVars == <<pc, numPages, attempt, elapsed, polls, nonTerminal, lastPoll, locator,
              fetchLog, records, result, errBody, logged, liveJobs, abortedJobs,
              jobState, restReads, createResp, createRet>>
restVars == <<entity, strategy, cPc, cIdx, cSummary, cLocal, cChunks>>
mergeVars == <<serverKeys, pageSize, fetched, acc, keyOrder, emitted, mPc>>
csvVars == <<payload, tmpFile, csvPc, csvPos, csvOut, csvReads, csvResult>>
checkVars == <<loginResp, discoveryResp, checkPc, checkRet>>
sliceVars == <<startDate, savedCursor, now, batchSize, sliceFrom, timeSlices, slPc, parentsRead, batch, subSlices>>
factoryVars == <<componentDefinition, passed, instantiateFlag, resolved, component, facPc>>
constructorVars == <<buildArgs, resolveCalls, resolvedDependencies, instances, ccRaised, ccPc>>
vars == <<orchVars, bulkVars, restVars, mergeVars, csvVars, checkVars, sliceVars, factoryVars, constructorVars>>
exceptOrch == <<bulkVars, restVars, mergeVars, csvVars, checkVars, sliceVars, factoryVars, constructorVars>>
exceptBulk == <<orchVars, restVars, mergeVars, csvVars, checkVars, sliceVars, factoryVars, constructorVars>>
exceptRest == <<orchVars, bulkVars, mergeVars, csvVars, checkVars, sliceVars, factoryVars, constructorVars>>
exceptMerge == <<orchVars, bulkVars, restVars, csvVars, checkVars, sliceVars, factoryVars, constructorVars>>
exceptCsv == <<orchVars, bulkVars, restVars, mergeVars, checkVars, sliceVars, factoryVars, constructorVars>>
exceptCheck == <<orchVars, bulkVars, restVars, mergeVars, csvVars, sliceVars, factoryVars, constructorVars>>
exceptSlice == <<orchVars, bulkVars, restVars, mergeVars, csvVars, checkVars, factoryVars, constructorVars>>
exceptFactory == <<orchVars, bulkVars, restVars, mergeVars, csvVars, checkVars, sliceVars, constructorVars>>
exceptConstructor == <<orchVars, bulkVars, restVars, mergeVars, csvVars, checkVars, sliceVars, factoryVars>>

Max(a, b) == IF a >= b THEN a ELSE b
Min(a, b) == IF a <= b THEN a ELSE b

(***************************************************************************)
(* Bounds of the model.                                                    *)
(***************************************************************************)
MaxTotal == 3       \* records read over one sync
MaxCursor == 3      \* cursor values are 1..MaxCursor
MaxInterval == 2    \* state_checkpoint_interval is 1..MaxInterval
MaxPages == 3       \* result pages of a bulk job
RowsPerPage == 2    \* rows of one result page
WaitTimeout == 3    \* polls that fit in one wait_for_job deadline
MaxAttempts == 2    \* jobs execute_job creates before it gives up

(***************************************************************************)
(* Sync Orchestrator                                                       *)
(***************************************************************************)
\* The configured catalog, in order: streams = [stream_1, stream_2].
Catalog == <<"Account", "Asset">>
Streams == {Catalog[i] : i \in 1..Len(Catalog)}
Cursors == 1..MaxCursor

\* The Sync State the sync starts from (the `state` fixture): one cursor per stream.
StartState == [s \in Streams |-> 1]

\* stream_slices: consecutive time windows from the start state on, given by their
\* end_date; the last one ends now.
SliceEnds == <<2, 3>>
NumSlices == Len(SliceEnds)
SliceEnd(k) == SliceEnds[k]

RecordMsg(s, c) == [type |-> "RECORD", stream |-> s, value |-> c]
StateMsg(s, v) == [type |-> "STATE", stream |-> s, value |-> v]

\* A cursor state that forgets the state it had: the last record seen wins.
UpdatedStateLastSeen(state, latest, sliceEnd) == Min(latest, sliceEnd)

\* A state that follows the last record read and may fall back behind itself.
UpdatedStateNoFloor(state, latest, sliceEnd) ==
    IF latest > sliceEnd THEN sliceEnd ELSE latest

\* A state that follows the records beyond the end of their slice.
UpdatedStateUncapped(state, latest, sliceEnd) == Max(latest, state)

\* get_updated_state: a record later than the slice end moves the state to the slice
\* end, any other record moves it to the greater of the record and the state.
UpdatedState(state, latest, sliceEnd) ==
    IF latest > sliceEnd THEN sliceEnd ELSE Max(latest, state)

\* A checkpoint that is never due.
CheckpointNever(s, cnt, st) == <<>>

\* The state message the read loop emits when the record counter reaches a
\* multiple of state_checkpoint_interval.
Checkpoint(s, cnt, st) ==
    IF cnt % interval = 0 THEN <<StateMsg(s, st)>> ELSE <<>>

\* The state message emitted when the read of a slice ends.
SliceEndState(s, st) == <<StateMsg(s, st)>>

RECURSIVE TotalRead(_)
TotalRead(i) == IF i = 0 THEN 0 ELSE Len(readLog[Catalog[i]]) + TotalRead(i - 1)

\* An orchestrator that starts with the last stream of the catalog.
CurStreamLast == Catalog[Len(Catalog)]

\* The stream the orchestrator is at: the streams are taken in catalog order.
CurStream == Catalog[cur]
Running == sync = "running" /\ cur <= Len(Catalog)

InitOrch ==
    /\ status = [s \in Streams |-> "NotStarted"]
    /\ cur = 1
    /\ slice = [s \in Streams |-> 0]
    /\ counter = [s \in Streams |-> 0]
    /\ cursor = StartState
    /\ out = <<>>
    /\ readLog = [s \in Streams |-> <<>>]
    /\ invoked = [s \in Streams |-> 0]
    /\ sync = "running"
    /\ interval \in 1..MaxInterval

\* A start that reads records without having asked for slices.
StartStreamSkipsSlicing ==
    /\ Running
    /\ status[CurStream] = "NotStarted"
    /\ status' = [status EXCEPT ![CurStream] = "ReadingRecords"]
    /\ slice' = [slice EXCEPT ![CurStream] = 1]
    /\ invoked' = [invoked EXCEPT ![CurStream] = @ + 1]
    /\ UNCHANGED <<cur, counter, cursor, out, readLog, sync, interval>>

\* The orchestrator turns to the next stream of the catalog and asks it for slices.
StartStream ==
    /\ Running
    /\ status[CurStream] = "NotStarted"
    /\ status' = [status EXCEPT ![CurStream] = "SlicingInProgress"]
    /\ UNCHANGED <<cur, slice, counter, cursor, out, readLog, invoked, sync, interval>>

\* The first slice is produced and its read starts (request_params is called).
OpenSlice ==
    /\ Running
    /\ status[CurStream] = "SlicingInProgress"
    /\ status' = [status EXCEPT ![CurStream] = "ReadingRecords"]
    /\ slice' = [slice EXCEPT ![CurStream] = 1]
    /\ invoked' = [invoked EXCEPT ![CurStream] = @ + 1]
    /\ UNCHANGED <<cur, counter, cursor, out, readLog, sync, interval>>

\* The read yields one record with cursor value c: the record is emitted, the state
\* advanced, and a checkpoint emitted when it is due.
ReadRecord(c) ==
    /\ Running
    /\ status[CurStream] = "ReadingRecords"
    /\ TotalRead(Len(Catalog)) < MaxTotal
    /\ LET s == CurStream
           st == UpdatedState(cursor[s], c, SliceEnd(slice[s]))
           cnt == counter[s] + 1
       IN /\ cursor' = [cursor EXCEPT ![s] = st]
          /\ counter' = [counter EXCEPT ![s] = cnt]
          /\ readLog' = [readLog EXCEPT ![s] = Append(@, [cursor |-> c, slice |-> slice[s]])]
          /\ out' = out \o <<RecordMsg(s, c)>> \o Checkpoint(s, cnt, st)
    /\ UNCHANGED <<status, cur, slice, invoked, sync, interval>>

\* The read of the slice ends: its state is emitted, then the next slice is read or
\* the stream completes and the orchestrator moves on.
EndSlice ==
    /\ Running
    /\ status[CurStream] = "ReadingRecords"
    /\ LET s == CurStream
       IN /\ out' = out \o SliceEndState(s, cursor[s])
          /\ IF slice[s] < NumSlices
             THEN /\ slice' = [slice EXCEPT ![s] = @ + 1]
                  /\ invoked' = [invoked EXCEPT ![s] = @ + 1]
                  /\ UNCHANGED <<status, cur, sync>>
             ELSE /\ status' = [status EXCEPT ![s] = "Completed"]
                  /\ cur' = cur + 1
                  /\ sync' = IF cur + 1 > Len(Catalog) THEN "succeeded" ELSE sync
                  /\ UNCHANGED <<slice, invoked>>
    /\ UNCHANGED <<counter, cursor, readLog, interval>>

\* A rate limit that ends the stream but lets the orchestrator go on to the next one.
RateLimitNextStream ==
    /\ Running
    /\ status[CurStream] = "ReadingRecords"
    /\ status' = [status EXCEPT ![CurStream] = "RateLimited"]
    /\ cur' = cur + 1
    /\ sync' = IF cur + 1 > Len(Catalog) THEN "succeeded" ELSE sync
    /\ UNCHANGED <<slice, counter, cursor, out, readLog, invoked, interval>>

\* A request of the stream is answered 403 REQUEST_LIMIT_EXCEEDED: the stream stops,
\* and the sync ends with success.
RateLimit ==
    /\ Running
    /\ status[CurStream] = "ReadingRecords"
    /\ status' = [status EXCEPT ![CurStream] = "RateLimited"]
    /\ sync' = "succeeded"
    /\ UNCHANGED <<cur, slice, counter, cursor, out, readLog, invoked, interval>>

\* Any other error of the read reaches the orchestrator: the sync fails.
StreamError ==
    /\ Running
    /\ status[CurStream] = "ReadingRecords"
    /\ status' = [status EXCEPT ![CurStream] = "Failed"]
    /\ sync' = "failed"
    /\ UNCHANGED <<cur, slice, counter, cursor, out, readLog, invoked, interval>>


(***************************************************************************)
(* Bulk read of one slice: BulkSalesforceStream.read_records               *)
(***************************************************************************)
\* Answers of POST .../jobs/query.
Created == [status |-> 200, errorCode |-> "none", message |-> "id"]
InvalidEntity ==
    [status |-> 400, errorCode |-> "INVALIDENTITY",
     message |-> "is not supported by the Bulk API"]
RequestLimitExceeded ==
    [status |-> 403, errorCode |-> "REQUEST_LIMIT_EXCEEDED", message |-> "API limit reached"]
NotQueryable ==
    [status |-> 400, errorCode |-> "API_ERROR", message |-> "API does not support query"]
LimitExceeded ==
    [status |-> 400, errorCode |-> "LIMIT_EXCEEDED",
     message |-> "Max bulk v2 query jobs (10000) per 24 hrs has been reached (10021)"]
Unclassified == [status |-> 400, errorCode |-> "none", message |-> "test_error"]
CreateResponses ==
    {Created, InvalidEntity, RequestLimitExceeded, NotQueryable, LimitExceeded, Unclassified}

\* A classification that has lost the LIMIT_EXCEEDED case.
SkippedByBulkNoDailyLimit(resp) ==
    \/ resp.status = 400 /\ resp.errorCode = "INVALIDENTITY"
          /\ resp.message = "is not supported by the Bulk API"
    \/ resp.status = 403 /\ resp.errorCode = "REQUEST_LIMIT_EXCEEDED"
    \/ resp.status = 400 /\ resp.message = "API does not support query"

\* A classification that takes every 400 for a reason to skip the stream.
SkippedByBulkAny400(resp) == resp.status \in {400, 403}

\* The rejections create_stream_job takes for "this stream cannot be read by bulk".
SkippedByBulk(resp) ==
    \/ resp.status = 400 /\ resp.errorCode = "INVALIDENTITY"
          /\ resp.message = "is not supported by the Bulk API"
    \/ resp.status = 403 /\ resp.errorCode = "REQUEST_LIMIT_EXCEEDED"
    \/ resp.status = 400 /\ resp.message = "API does not support query"
    \/ resp.status = 400 /\ resp.errorCode = "LIMIT_EXCEEDED"

\* The error create_stream_job logs for a rejection it classifies.
LogMessage(resp) ==
    IF resp.errorCode \in {"INVALIDENTITY", "REQUEST_LIMIT_EXCEEDED"} THEN resp.message
    ELSE IF resp.errorCode = "LIMIT_EXCEEDED"
         THEN "Your API key for Salesforce has reached its limit for the 24-hour period. We will resume replication once the limit has elapsed."
         ELSE "The stream 'Account' is not queryable,"

\* create_stream_job: the job on success, None (and a logged error) on a classified
\* rejection, the HTTP error raised on anything else.
CreateStreamJob(resp) ==
    IF resp.status = 200 THEN [ret |-> "job", log |-> <<>>]
    ELSE IF SkippedByBulk(resp) THEN [ret |-> "None", log |-> <<LogMessage(resp)>>]
    ELSE [ret |-> "raised", log |-> <<>>]

\* Answers of GET .../jobs/query/{id}.
NonTerminalStates == {"UploadComplete", "InProgress"}
FailedStates == {"JobFailed", "Aborted"}
PollErrors == {"TXN_SECURITY_METERING_ERROR", "REQUEST_LIMIT_EXCEEDED"}
PollAnswers == NonTerminalStates \cup FailedStates \cup {"JobComplete"} \cup PollErrors

TransientAuthMessage ==
    "A transient authentication error occurred. To prevent future syncs from failing, assign the \"Exempt from Transaction Security\" user permission to the authenticated user."

\* An error handler that re-raises every error of the poll as it came.
PollErrorReraised(code) == [result |-> "HttpError", body |-> code]

\* wait_for_job's handling of an error answer to the status poll.
PollError(code) ==
    IF code = "TXN_SECURITY_METERING_ERROR"
    THEN [result |-> "ConfigError", body |-> TransientAuthMessage]
    ELSE [result |-> "HttpError", body |-> code]

\* The place of a state in the life cycle of an Export Job:
\* Created -> UploadComplete -> InProgress -> JobComplete | JobFailed | Aborted.
JobRank(state) ==
    IF state = "none" THEN 0
    ELSE IF state = "Created" THEN 1
    ELSE IF state = "UploadComplete" THEN 2
    ELSE IF state = "InProgress" THEN 3 ELSE 4

\* A poll loop that takes the results of a job that failed.
AfterPollFetchesFailed(state) ==
    IF state \in {"JobComplete", "JobFailed"} THEN "fetch"
    ELSE IF state = "Aborted" THEN "delete" ELSE "poll"

\* A poll loop that takes UploadComplete for a final state.
AfterPollUploadIsFinal(state) ==
    IF state = "JobComplete" THEN "fetch"
    ELSE IF state = "InProgress" THEN "poll" ELSE "delete"

\* Where read_records goes after a status poll answered with a job state.
AfterPoll(state) ==
    IF state = "JobComplete" THEN "fetch"
    ELSE IF state \in FailedStates THEN "delete" ELSE "poll"

\* A read that leaves the job on the server when it gives the job up.
KeptOnExit(jobs, job) == jobs

\* The read gives a job up (retry after a timeout, error of a poll or of a results
\* request): the job is deleted remotely, DELETE .../jobs/query/{id}.
DeletedOnExit(jobs, job) == jobs \ {job}

\* A deadline that never elapses.
DeadlineNever == FALSE

\* wait_for_job's deadline: the polls of this wait have used up the timeout.
DeadlineElapsed == elapsed >= WaitTimeout

\* Locators: none on the first request, the value of the Sforce-Locator header after.
NoLocator == [kind |-> "none"]
NullLocator == [kind |-> "null"]
Loc(p) == [kind |-> "loc", id |-> p]

\* The server: the page a results request gets, its rows and its Sforce-Locator.
ServerPage(loc) == IF loc = NoLocator THEN 1 ELSE loc.id + 1
PageRecords(p) == [r \in 1..RowsPerPage |-> (p - 1) * RowsPerPage + r]
ServerLocator(p) == IF p < numPages THEN Loc(p) ELSE NullLocator

\* A results loop that never takes the locator of the page it read.
NextLocatorKept(loc, header) == loc

\* The locator of the next results request: the header of the page just read.
NextLocator(loc, header) == header

\* The records of the REST read the stream falls back to.
RestRecords == <<1, 11>>

\* A fallback that also happens for a job that failed after it was created.
FallsBackToRestOnFailure(ret, state) == ret = "None" \/ state \in FailedStates

\* read_records falls back to the standard instance when no job was created.
FallsBackToRest(ret, state) == ret = "None"

InitBulk ==
    /\ pc = "create"
    /\ numPages \in 1..MaxPages
    /\ attempt = 0
    /\ elapsed = 0
    /\ polls = 0
    /\ nonTerminal = 0
    /\ lastPoll = "none"
    /\ locator = NoLocator
    /\ fetchLog = <<>>
    /\ records = <<>>
    /\ result = "none"
    /\ errBody = "none"
    /\ logged = <<>>
    /\ liveJobs = {}
    /\ abortedJobs = {}
    /\ jobState = [j \in 1..MaxAttempts |-> "none"]
    /\ restReads = 0
    /\ createResp = [status |-> 0, errorCode |-> "none", message |-> "none"]
    /\ createRet = "none"

\* execute_job creates a job: POST .../jobs/query answered with resp.
CreateJob(resp) ==
    /\ pc = "create"
    /\ attempt < MaxAttempts
    /\ LET r == CreateStreamJob(resp)
       IN /\ createResp' = resp
          /\ createRet' = r.ret
          /\ logged' = logged \o r.log
          /\ IF r.ret = "job"
             THEN /\ attempt' = attempt + 1
                  /\ liveJobs' = liveJobs \cup {attempt + 1}
                  /\ jobState' = [jobState EXCEPT ![attempt + 1] = "Created"]
                  /\ elapsed' = 0
                  /\ pc' = "poll"
                  /\ UNCHANGED <<result, errBody>>
             ELSE IF r.ret = "raised"
             THEN /\ result' = "HttpError"
                  /\ errBody' = resp.message
                  /\ pc' = "done"
                  /\ UNCHANGED <<attempt, liveJobs, jobState, elapsed>>
             ELSE /\ pc' = IF FallsBackToRest(r.ret, lastPoll) THEN "rest" ELSE "delete"
                  /\ UNCHANGED <<attempt, liveJobs, jobState, elapsed, result, errBody>>
    /\ UNCHANGED <<numPages, polls, nonTerminal, lastPoll, locator, fetchLog, records,
                   abortedJobs, restReads>>

\* wait_for_job polls the job before its deadline: GET .../jobs/query/{id} answered ans.
\* (The bound on polls only keeps the counter finite; the deadline always stops the
\* loop first.)
Poll(ans) ==
    /\ pc = "poll"
    /\ ~DeadlineElapsed
    /\ polls <= MaxAttempts * WaitTimeout
    /\ JobRank(ans) >= JobRank(jobState[attempt])
    /\ polls' = polls + 1
    /\ lastPoll' = ans
    /\ IF ans \in PollErrors
       THEN /\ result' = PollError(ans).result
            /\ errBody' = PollError(ans).body
            /\ liveJobs' = DeletedOnExit(liveJobs, attempt)
            /\ pc' = "done"
            /\ UNCHANGED <<elapsed, nonTerminal, locator, jobState>>
       ELSE /\ jobState' = [jobState EXCEPT ![attempt] = ans]
            /\ UNCHANGED liveJobs
            /\ pc' = IF AfterPoll(ans) = "delete" /\ FallsBackToRest(createRet, ans)
                     THEN "rest" ELSE AfterPoll(ans)
            /\ elapsed' = IF AfterPoll(ans) = "poll" THEN elapsed + 1 ELSE elapsed
            /\ nonTerminal' = IF ans \in NonTerminalStates THEN nonTerminal + 1 ELSE nonTerminal
            /\ locator' = NoLocator
            /\ UNCHANGED <<result, errBody>>
    /\ UNCHANGED <<numPages, attempt, fetchLog, records, logged, abortedJobs,
                   restReads, createResp, createRet>>

\* wait_for_job's deadline elapsed with the job still not final: the job is aborted
\* (PATCH) and, when execute_job creates another one, deleted; after the last
\* attempt execute_job gives up and the job is deleted by delete_job.
WaitTimedOut ==
    /\ pc = "poll"
    /\ DeadlineElapsed
    /\ abortedJobs' = abortedJobs \cup {attempt}
    /\ jobState' = [jobState EXCEPT ![attempt] = "Aborted"]
    /\ liveJobs' = IF attempt < MaxAttempts THEN DeletedOnExit(liveJobs, attempt)
                   ELSE liveJobs
    /\ pc' = IF attempt < MaxAttempts THEN "create" ELSE "delete"
    /\ UNCHANGED <<numPages, attempt, elapsed, polls, nonTerminal, lastPoll, locator,
                   fetchLog, records, result, errBody, logged, restReads,
                   createResp, createRet>>

\* One request of the results loop: GET .../results with the current locator,
\* answered with the page (ok) or with 403 REQUEST_LIMIT_EXCEEDED. (The bound on the
\* request log only keeps it finite; the null locator always stops the loop first.)
FetchPage(ok) ==
    /\ pc = "fetch"
    /\ Len(fetchLog) <= MaxPages
    /\ fetchLog' = Append(fetchLog, locator)
    /\ IF ok
       THEN LET p == ServerPage(locator)
                header == ServerLocator(p)
            IN /\ records' = records \o PageRecords(p)
               /\ IF header = NullLocator
                  THEN pc' = "delete" /\ UNCHANGED locator
                  ELSE pc' = "fetch" /\ locator' = NextLocator(locator, header)
               /\ UNCHANGED <<result, errBody, liveJobs>>
       ELSE /\ result' = "HttpError"
            /\ errBody' = "REQUEST_LIMIT_EXCEEDED"
            /\ liveJobs' = DeletedOnExit(liveJobs, attempt)
            /\ pc' = "done"
            /\ UNCHANGED <<records, locator>>
    /\ UNCHANGED <<numPages, attempt, elapsed, polls, nonTerminal, lastPoll, logged,
                   abortedJobs, jobState, restReads, createResp, createRet>>

ParseErrorMessage == "field larger than field limit"

\* A reader that skips what it cannot parse and goes on with the next page request.
ReadFailsSilently ==
    /\ pc = "fetch"
    /\ Len(fetchLog) <= MaxPages
    /\ errBody' = ParseErrorMessage
    /\ UNCHANGED <<pc, fetchLog, result, liveJobs, numPages, attempt, elapsed, polls,
                   nonTerminal, lastPoll, locator, records, logged, abortedJobs, jobState,
                   restReads, createResp, createRet>>

\* The page of one results request cannot be parsed (malformed row or a field above
\* the ceiling): read_with_chunks raises, the read ends with the parse error and no
\* row of that page, and the job is deleted.
ReadFails ==
    /\ pc = "fetch"
    /\ Len(fetchLog) <= MaxPages
    /\ fetchLog' = Append(fetchLog, locator)
    /\ result' = "ParseError"
    /\ errBody' = ParseErrorMessage
    /\ liveJobs' = DeletedOnExit(liveJobs, attempt)
    /\ pc' = "done"
    /\ UNCHANGED <<numPages, attempt, elapsed, polls, nonTerminal, lastPoll, locator,
                   records, logged, abortedJobs, jobState, restReads, createResp,
                   createRet>>

\* delete_job (DELETE .../jobs/query/{id}), after the last page or for a job that
\* failed or timed out; read_records then ends, with the fatal error in the latter case.
DeleteJob ==
    /\ pc = "delete"
    /\ liveJobs' = liveJobs \ {attempt}
    /\ result' = IF lastPoll = "JobComplete" THEN "ok" ELSE "BulkFailed"
    /\ errBody' = IF lastPoll = "JobComplete" THEN errBody
                  ELSE "Job for Account stream using BULK API was failed."
    /\ pc' = "done"
    /\ UNCHANGED <<numPages, attempt, elapsed, polls, nonTerminal, lastPoll, locator,
                   fetchLog, records, logged, abortedJobs, jobState, restReads, createResp,
                   createRet>>

\* The fallback: the standard (REST) instance reads the slice.
ReadRest ==
    /\ pc = "rest"
    /\ restReads' = restReads + 1
    /\ records' = records \o RestRecords
    /\ result' = "ok"
    /\ pc' = "done"
    /\ UNCHANGED <<numPages, attempt, elapsed, polls, nonTerminal, lastPoll, locator,
                   fetchLog, errBody, logged, liveJobs, abortedJobs, jobState, createResp,
                   createRet>>

(***************************************************************************)
(* Stream Selector and Property Chunker: the construction of one stream.   *)
(***************************************************************************)
MaxFields == 4          \* fields of an entity
MaxFieldLen == 2        \* length of one quoted property name with its comma
RequestSizeLimits == 8  \* Salesforce.REQUEST_SIZE_LIMITS, scaled to the field lengths
ReservedLength == 4     \* part of the limit kept for the rest of the query URL

EntityNames == {"AcceptedEventRelation", "Account"}

\* The entities the bulk API does not serve.
UnsupportedBulkApiObjects == {"AcceptedEventRelation"}

\* "address" stands for the compound types (BillingAddress).
FieldTypes == {"string", "address"}
CompoundTypes == {"address"}

\* The field lists of n fields.
FieldLists(n) == [1..n -> [len : 1..MaxFieldLen, type : FieldTypes]]

\* pk = 0: the entity has no primary key; otherwise the index of the key field.
PrimaryKeys(fs) == {0} \cup { k \in 1..Len(fs) : fs[k].type \notin CompoundTypes }

HasPrimaryKey(e) == e.pk # 0
HasCompoundField(e) == \E i \in 1..Len(e.fields) : e.fields[i].type \in CompoundTypes

RECURSIVE SumLen(_, _)
SumLen(fs, S) ==
    IF S = {} THEN 0
    ELSE LET i == CHOOSE x \in S : TRUE IN fs[i].len + SumLen(fs, S \ {i})

\* Length of the quoted, comma-joined property names.
PropertiesLength(e) == SumLen(e.fields, 1..Len(e.fields)) - 1

MaxPropertiesLength == RequestSizeLimits - ReservedLength

TooManyProperties(e) == PropertiesLength(e) > MaxPropertiesLength

\* The API type of an entity: rules (a), (b), (d) of the Stream Selector.
SelectIgnoresCompound(e) ==
    IF e.name \in UnsupportedBulkApiObjects THEN "Rest" ELSE "Bulk"

SelectIgnoresList(e) ==
    IF HasCompoundField(e) THEN "Rest" ELSE "Bulk"

Select(e) ==
    IF e.name \in UnsupportedBulkApiObjects THEN "Rest"
    ELSE IF HasCompoundField(e) THEN "Rest"
    ELSE "Bulk"

\* The decision rule in the order (a), (b), (c), (d).
GenerateStreamInRuleOrder(e) ==
    IF Select(e) = "Rest" THEN "Rest"
    ELSE IF ~HasPrimaryKey(e) /\ TooManyProperties(e) THEN "Error"
    ELSE "Bulk"

\* A missing primary key refused whatever the width of the entity.
GenerateStreamNeedsKey(e) ==
    IF ~HasPrimaryKey(e) THEN "Error" ELSE Select(e)

\* generate_stream: a stream of the selected API type, or an AssertionError for
\* an entity without primary key whose properties do not fit one request.
GenerateStream(e) ==
    IF ~HasPrimaryKey(e) /\ TooManyProperties(e) THEN "Error" ELSE Select(e)

\* chunk_properties starts every chunk from the primary key, when there is one.
EmptyPropsNoPk(e) == {}
EmptyPropsWithPk(e) == IF HasPrimaryKey(e) THEN {e.pk} ELSE {}

\* The chunk under construction is closed before the property is added.
ChunkIsFullNoReserve(len, summary) == len + summary >= RequestSizeLimits
ChunkIsFull(len, summary) == len + summary >= MaxPropertiesLength

\* Length of the query URL that selects the fields of one chunk.
UrlLength(e, chunk) == 1 + SumLen(e.fields, chunk)

InitRest ==
    /\ \E nm \in EntityNames, n \in 1..MaxFields :
          \E fs \in FieldLists(n) :
              \E k \in PrimaryKeys(fs) :
                  entity = [name |-> nm, fields |-> fs, pk |-> k]
    /\ strategy = "none"
    /\ cPc = "build"
    /\ cIdx = 1
    /\ cSummary = 0
    /\ cLocal = {}
    /\ cChunks = <<>>

\* The stream machinery at rest, in the specifications that do not build a stream.
IdleRest ==
    /\ entity = [name |-> "Account", fields |-> <<[len |-> 1, type |-> "string"]>>, pk |-> 1]
    /\ strategy = "none"
    /\ cPc = "build"
    /\ cIdx = 1
    /\ cSummary = 0
    /\ cLocal = {}
    /\ cChunks = <<>>

\* generate_stream builds the stream of the entity; a REST stream then chunks
\* its properties.
BuildStream ==
    /\ cPc = "build"
    /\ strategy' = GenerateStream(entity)
    /\ cPc' = IF strategy' = "Rest" THEN "chunk" ELSE "done"
    /\ cLocal' = IF strategy' = "Rest" THEN EmptyPropsWithPk(entity) ELSE cLocal
    /\ UNCHANGED <<entity, cIdx, cSummary, cChunks>>

\* One turn of the loop of chunk_properties over the selected properties.
ChunkStep ==
    /\ cPc = "chunk"
    /\ cIdx <= Len(entity.fields)
    /\ LET len == entity.fields[cIdx].len
           full == ChunkIsFull(len, cSummary)
       IN /\ cChunks' = IF full THEN Append(cChunks, cLocal) ELSE cChunks
          /\ cLocal' = (IF full THEN EmptyPropsWithPk(entity) ELSE cLocal) \cup {cIdx}
          /\ cSummary' = (IF full THEN 0 ELSE cSummary) + len
    /\ cIdx' = cIdx + 1
    /\ UNCHANGED <<entity, strategy, cPc>>

\* The end of chunk_properties: the chunk under construction is yielded.
ChunkEnd ==
    /\ cPc = "chunk"
    /\ cIdx > Len(entity.fields)
    /\ cChunks' = IF cLocal # {} THEN Append(cChunks, cLocal) ELSE cChunks
    /\ cPc' = "done"
    /\ UNCHANGED <<entity, strategy, cIdx, cSummary, cLocal>>

(***************************************************************************)
(* The read of a REST stream with too many properties: every property      *)
(* chunk is queried page by page and the parts of a record are stuck       *)
(* together by primary key.                                                *)
(***************************************************************************)
MaxKeys == 3            \* primary keys are 1..MaxKeys

Keys == 1..MaxKeys

\* The fields of the property chunks besides the primary key "Id".
ChunkFields == <<{"propertyA"}, {"propertyB"}>>
Chunks == 1..Len(ChunkFields)
AllFields == {"Id"} \cup UNION { ChunkFields[c] : c \in Chunks }

FieldValue(f) == IF f = "propertyA" THEN "A" ELSE "B"

\* The part of record k that the query of chunk c returns.
PartialRecord(c, k) ==
    [f \in {"Id"} \cup ChunkFields[c] |-> IF f = "Id" THEN k ELSE FieldValue(f)]

RECURSIVE SortedSeq(_)
SortedSeq(S) ==
    IF S = {} THEN <<>>
    ELSE LET m == CHOOSE x \in S : \A y \in S : x <= y
         IN <<m>> \o SortedSeq(S \ {m})

\* Pages the query of a chunk answers with: an empty answer is one empty page.
ChunkPages(keys, size) ==
    IF keys = {} THEN 1 ELSE (Cardinality(keys) + size - 1) \div size

\* The records of page p of chunk c, in primary key order.
ChunkPage(c, keys, size, p) ==
    LET all == SortedSeq(keys)
        page == SubSeq(all, (p - 1) * size + 1, Min(p * size, Len(all)))
    IN [i \in 1..Len(page) |-> PartialRecord(c, page[i])]

EmptyAcc == [k \in {} |-> 0]

\* A part that replaces what was known of the record.
UpsertReplace(a, rec) == (rec.Id :> rec) @@ a

\* records_by_primary_key after one part of a record: a new key is added, a
\* known record is updated with the fields of the part.
Upsert(a, rec) ==
    IF rec.Id \in DOMAIN a
    THEN [a EXCEPT ![rec.Id] = rec @@ a[rec.Id]]
    ELSE (rec.Id :> rec) @@ a

RECURSIVE UpsertAll(_, _)
UpsertAll(a, recs) ==
    IF recs = <<>> THEN a ELSE UpsertAll(Upsert(a, Head(recs)), Tail(recs))

PageKeys(recs) == { recs[i].Id : i \in 1..Len(recs) }

\* A page without records that leaves an entry behind.
MergePagePhantom(a, recs) ==
    IF recs = <<>> THEN (0 :> [Id |-> 0]) @@ a ELSE UpsertAll(a, recs)

\* A page that takes the fields away from the records it does not return.
MergePageDropAbsent(a, recs) ==
    LET m == UpsertAll(a, recs)
    IN [k \in DOMAIN m |-> IF k \in PageKeys(recs) THEN m[k] ELSE [Id |-> k]]

\* The records of one page stuck to records_by_primary_key.
MergePage(a, recs) == UpsertAll(a, recs)

\* The keys of a page that were not seen before, in page order.
RECURSIVE NewKeys(_, _)
NewKeys(seen, recs) ==
    IF recs = <<>> THEN <<>>
    ELSE LET k == Head(recs).Id
         IN IF k \in seen THEN NewKeys(seen, Tail(recs))
            ELSE <<k>> \o NewKeys(seen \cup {k}, Tail(recs))

\* Only the records every chunk returned a part of.
OnlyCompleteRecords(a, order) ==
    SelectSeq([i \in 1..Len(order) |-> a[order[i]]], LAMBDA r : DOMAIN r = AllFields)

\* The records the read yields: one per entry of records_by_primary_key.
MergedRecords(a, order) == [i \in 1..Len(order) |-> a[order[i]]]

InitMerge ==
    /\ serverKeys \in [Chunks -> SUBSET Keys]
    /\ pageSize \in [Chunks -> 1..MaxKeys]
    /\ fetched = [c \in Chunks |-> 0]
    /\ acc = EmptyAcc
    /\ keyOrder = <<>>
    /\ emitted = <<>>
    /\ mPc = "reading"

\* The chunked read at rest, in the specifications that do not read chunks.
IdleMerge ==
    /\ serverKeys = [c \in Chunks |-> {}]
    /\ pageSize = [c \in Chunks |-> 1]
    /\ fetched = [c \in Chunks |-> 0]
    /\ acc = EmptyAcc
    /\ keyOrder = <<>>
    /\ emitted = <<>>
    /\ mPc = "reading"

\* The next page of chunk c is fetched and its records are merged.
FetchChunkPage(c) ==
    /\ mPc = "reading"
    /\ fetched[c] < ChunkPages(serverKeys[c], pageSize[c])
    /\ LET recs == ChunkPage(c, serverKeys[c], pageSize[c], fetched[c] + 1)
       IN /\ acc' = MergePage(acc, recs)
          /\ keyOrder' = keyOrder \o NewKeys(DOMAIN acc, recs)
    /\ fetched' = [fetched EXCEPT ![c] = @ + 1]
    /\ UNCHANGED <<serverKeys, pageSize, emitted, mPc>>

\* No chunk has a next page: the merged records are yielded.
EmitMerged ==
    /\ mPc = "reading"
    /\ \A c \in Chunks : fetched[c] = ChunkPages(serverKeys[c], pageSize[c])
    /\ emitted' = MergedRecords(acc, keyOrder)
    /\ mPc' = "done"
    /\ UNCHANGED <<serverKeys, pageSize, fetched, acc, keyOrder>>

(***************************************************************************)
(* CSV Chunk Reader: download_data writes the body of a results response   *)
(* into a temporary file, read_with_chunks turns the file into row         *)
(* mappings and removes it.                                                *)
(***************************************************************************)
MaxPayload == 5             \* characters of a response body
DownloadChunkSize == 2      \* characters download_data writes at a time
DefaultFieldSizeLimit == 1  \* the csv module's default field size limit, scaled
CsvFieldSizeLimit == 3      \* CSV_FIELD_SIZE_LIMIT, scaled

Nul == "NUL"
Comma == ","
Newline == "\n"
Quote == "\""
FieldChars == {"0"}
Alphabet == FieldChars \cup {Comma, Newline, Quote, Nul}

\* A filter that lets the null bytes through.
FilterKeepsNulls(chunk) == chunk

\* filter_null_bytes: a chunk of the body without its null bytes.
FilterNullBytes(chunk) == SelectSeq(chunk, LAMBDA c : c # Nul)

\* The content download_data writes: the body, filtered chunk by chunk.
RECURSIVE DownloadData(_)
DownloadData(body) ==
    IF Len(body) <= DownloadChunkSize THEN FilterNullBytes(body)
    ELSE FilterNullBytes(SubSeq(body, 1, DownloadChunkSize))
         \o DownloadData(SubSeq(body, DownloadChunkSize + 1, Len(body)))

NoFile == [exists |-> FALSE, data |-> <<>>]
File(data) == [exists |-> TRUE, data |-> data]

\* The CSV dialect: fields separated by commas, rows by line feeds, a quoted
\* part of a field taken literally, blank lines skipped.
ScanStart == [inQuote |-> FALSE, seen |-> FALSE, field |-> <<>>, row |-> <<>>, rows |-> <<>>]

EndField(st) == [st EXCEPT !.row = Append(@, st.field), !.field = <<>>]

EndRow(st) ==
    [st EXCEPT !.rows = IF st.seen THEN Append(@, st.row) ELSE @,
               !.row = <<>>, !.seen = FALSE]

ScanChar(st, c) ==
    IF c = Quote THEN [st EXCEPT !.inQuote = ~@, !.seen = TRUE]
    ELSE IF st.inQuote THEN [st EXCEPT !.field = Append(@, c)]
    ELSE IF c = Comma THEN [EndField(st) EXCEPT !.seen = TRUE]
    ELSE IF c = Newline THEN EndRow(EndField(st))
    ELSE [st EXCEPT !.field = Append(@, c), !.seen = TRUE]

RECURSIVE Scan(_, _)
Scan(st, text) == IF text = <<>> THEN st ELSE Scan(ScanChar(st, Head(text)), Tail(text))

\* The lines of a file, each a sequence of raw fields; the first is the header.
Lines(text) ==
    LET st == Scan(ScanStart, text)
    IN IF st.seen THEN EndRow(EndField(st)).rows ELSE st.rows

Header(text) == Lines(text)[1]
DataRows(text) == IF Lines(text) = <<>> THEN <<>> ELSE Tail(Lines(text))

Null == [isNull |-> TRUE, str |-> <<>>]
Str(s) == [isNull |-> FALSE, str |-> s]

\* An empty value returned as the empty string.
ValueEmptyString(f) == Str(f)

\* The value of a field: None for an empty one, else the string as it is in the
\* file (dtype=object: no conversion).
Value(f) == IF f = <<>> THEN Null ELSE Str(f)

\* A size check against the csv module's default limit.
FieldTooLargeForDefault(f) == Len(f) > DefaultFieldSizeLimit

\* csv.field_size_limit(CSV_FIELD_SIZE_LIMIT): a field above it is an error.
FieldTooLarge(f) == Len(f) > CsvFieldSizeLimit

\* A row read_with_chunks cannot parse: an oversized field, or more fields
\* than the header has columns.
Malformed(row, width) ==
    \/ Len(row) > width
    \/ \E i \in 1..Len(row) : FieldTooLarge(row[i])

\* The mapping of one row, in the column order of the header; a column the row
\* has no field for is None.
RowMapping(header, row) ==
    [i \in 1..Len(header) |->
        [name |-> header[i], value |-> IF i <= Len(row) THEN Value(row[i]) ELSE Null]]

\* A reader that goes on from where the last read stopped.
ReaderResumes(pos) == pos

\* Where read_with_chunks starts in the file it opens.
ReaderStart(pos) == 0

\* A temporary file that is removed only after a read without error.
FileAfterReadKeptOnError(file, outcome) == IF outcome = "ok" THEN NoFile ELSE file

\* read_with_chunks removes the temporary file however the read ends.
FileAfterRead(file, outcome) == NoFile

ReadOutcome(rows, outcome) == [rows |-> rows, result |-> outcome]

InitCsv ==
    /\ \E n \in 0..MaxPayload : payload \in [1..n -> Alphabet]
    /\ tmpFile = NoFile
    /\ csvPc = "wait"
    /\ csvPos = 0
    /\ csvOut = <<>>
    /\ csvReads = <<>>
    /\ csvResult = "none"

\* The CSV reader at rest, in the specifications that read no result page.
IdleCsv ==
    /\ payload = <<>>
    /\ tmpFile = NoFile
    /\ csvPc = "wait"
    /\ csvPos = 0
    /\ csvOut = <<>>
    /\ csvReads = <<>>
    /\ csvResult = "none"

\* The job of the slice is awaited: it completes, or the poller raises its
\* fatal error and the read ends before any download.
AwaitJob(ok) ==
    /\ csvPc = "wait"
    /\ csvPc' = IF ok THEN "download" ELSE "done"
    /\ csvResult' = IF ok THEN csvResult ELSE "BulkFailed"
    /\ UNCHANGED <<payload, tmpFile, csvPos, csvOut, csvReads>>

\* download_data: the body is written to a new temporary file.
Download ==
    /\ csvPc = "download"
    /\ tmpFile' = File(DownloadData(payload))
    /\ csvPc' = "open"
    /\ UNCHANGED <<payload, csvPos, csvOut, csvReads, csvResult>>

\* read_with_chunks opens the file and reads the header; an empty file or a
\* file with a header only has no rows.
OpenFile ==
    /\ csvPc = "open"
    /\ csvOut' = <<>>
    /\ csvPos' = ReaderStart(csvPos)
    /\ IF Lines(tmpFile.data) # <<>> /\ Malformed(Header(tmpFile.data), Len(Header(tmpFile.data)))
       THEN /\ csvResult' = "ParseError"
            /\ csvReads' = Append(csvReads, ReadOutcome(<<>>, "ParseError"))
            /\ tmpFile' = FileAfterRead(tmpFile, "ParseError")
            /\ csvPc' = "done"
       ELSE /\ csvPc' = "rows"
            /\ UNCHANGED <<tmpFile, csvReads, csvResult>>
    /\ UNCHANGED payload

\* The next row of the file is parsed and yielded, or it is malformed and the
\* read ends with a parse error.
YieldRow ==
    /\ csvPc = "rows"
    /\ csvPos < Len(DataRows(tmpFile.data))
    /\ LET header == Header(tmpFile.data)
           row == DataRows(tmpFile.data)[csvPos + 1]
       IN IF Malformed(row, Len(header))
          THEN /\ csvResult' = "ParseError"
               /\ csvReads' = Append(csvReads, ReadOutcome(csvOut, "ParseError"))
               /\ tmpFile' = FileAfterRead(tmpFile, "ParseError")
               /\ csvPc' = "done"
               /\ UNCHANGED <<csvOut, csvPos>>
          ELSE /\ csvOut' = Append(csvOut, RowMapping(header, row))
               /\ csvPos' = csvPos + 1
               /\ UNCHANGED <<tmpFile, csvReads, csvResult, csvPc>>
    /\ UNCHANGED payload

\* The end of the file: the temporary file is removed.
EndOfFile ==
    /\ csvPc = "rows"
    /\ csvPos >= Len(DataRows(tmpFile.data))
    /\ csvResult' = "ok"
    /\ csvReads' = Append(csvReads, ReadOutcome(csvOut, "ok"))
    /\ tmpFile' = FileAfterRead(tmpFile, "ok")
    /\ csvPc' = "done"
    /\ UNCHANGED <<payload, csvOut, csvPos>>

\* The same result page is fetched and read once more.
RetryFetch ==
    /\ csvPc = "done"
    /\ Len(csvReads) = 1
    /\ csvPc' = "download"
    /\ csvResult' = "none"
    /\ UNCHANGED <<payload, tmpFile, csvPos, csvOut, csvReads>>

(***************************************************************************)
(* check_connection: login, then discovery of the objects.                 *)
(***************************************************************************)
\* A response: status, shape of the body ("ok", an OAuth error object with error and
\* error_description, or a list of API errors with errorCode and message), and the
\* two fields of the error.
Response(st, kind, code, text) ==
    [status |-> st, kind |-> kind, code |-> code, text |-> text]
OkResponse == Response(200, "ok", "none", "none")

\* Answers of POST /services/oauth2/token.
LoginResponses ==
    {OkResponse}
    \cup { Response(400, "oauth", e, d) :
             e \in {"invalid_grant", "invalid_client"},
             d \in {"expired access/refresh token", "Authentication failure.", "Unautorized"} }
    \cup { Response(401, "oauth", e, d) :
             e \in {"Unauthorized", "invalid_client"},
             d \in {"Authentication failure.", "Unautorized"} }
    \cup { Response(403, "api", c, "TotalRequests Limit exceeded.") :
             c \in {"REQUEST_LIMIT_EXCEEDED"} }
    \cup { Response(403, "api", c, "You do not have enough permissions") :
             c \in {"FORBIDDEN"} }

\* Answers of GET /services/data/v57.0/sobjects.
DiscoveryResponses ==
    {OkResponse,
     Response(403, "api", "REQUEST_LIMIT_EXCEEDED", "TotalRequests Limit exceeded.")}
    \cup { Response(s, "api", c, "You do not have enough permissions") :
             s \in {403, 404}, c \in {"FORBIDDEN", "NOT_FOUND"} }

\* AUTHENTICATION_ERROR_MESSAGE_MAPPING: error_description -> message for the user.
AuthenticationErrorMessageMapping ==
    [d \in {"expired access/refresh token"} |->
        "The authentication to SalesForce has expired. Re-authenticate to restore access to SalesForce."]

NoBody == Response(0, "none", "none", "none")
\* What check_connection gives: a raised traced configuration error with its message,
\* or the pair (ok, msg); a message "An error occurred: " is followed by the body.
Raised(msg) == [raised |-> TRUE, ok |-> FALSE, msg |-> msg, body |-> NoBody]
Returned(ok, msg, body) == [raised |-> FALSE, ok |-> ok, msg |-> msg, body |-> body]
NoReturn == [raised |-> FALSE, ok |-> FALSE, msg |-> "pending", body |-> NoBody]

\* An error message that never names the call limit.
ErrorMessageAlwaysBody(resp) == Returned(FALSE, "An error occurred: ", resp)

\* check_connection's message for an HTTP error of the login or of the discovery.
ErrorMessage(resp) ==
    IF resp.kind = "api" /\ resp.status = 403 /\ resp.code = "REQUEST_LIMIT_EXCEEDED"
    THEN Returned(FALSE, "API Call limit is exceeded", NoBody)
    ELSE Returned(FALSE, "An error occurred: ", resp)

\* The login's error handler: a known error_description raises the traced
\* configuration error, any other error is left to check_connection.
LoginError(resp) ==
    IF resp.kind = "oauth" /\ resp.text \in DOMAIN AuthenticationErrorMessageMapping
    THEN Raised(AuthenticationErrorMessageMapping[resp.text])
    ELSE ErrorMessage(resp)

InitCheck ==
    /\ loginResp \in LoginResponses
    /\ discoveryResp \in DiscoveryResponses
    /\ checkPc = "login"
    /\ checkRet = NoReturn

\* check_connection at rest, in the specifications that do not check the connection.
IdleCheck ==
    /\ loginResp = OkResponse
    /\ discoveryResp = OkResponse
    /\ checkPc = "login"
    /\ checkRet = NoReturn

\* _get_sf_object: the login request is answered.
Login ==
    /\ checkPc = "login"
    /\ IF loginResp.status = 200
       THEN checkPc' = "discover" /\ UNCHANGED checkRet
       ELSE checkPc' = "done" /\ checkRet' = LoginError(loginResp)
    /\ UNCHANGED <<loginResp, discoveryResp>>

\* salesforce.describe(): the discovery request is answered.
Describe ==
    /\ checkPc = "discover"
    /\ checkPc' = "done"
    /\ checkRet' = IF discoveryResp.status = 200
                   THEN Returned(TRUE, "None", NoBody)
                   ELSE ErrorMessage(discoveryResp)
    /\ UNCHANGED <<loginResp, discoveryResp>>

(***************************************************************************)
(* stream_slices: time slices of an incremental bulk stream, and the       *)
(* parent batches of a bulk sub-stream.                                    *)
(***************************************************************************)
MaxDate == 5        \* dates are 0..MaxDate
MaxParents == 4     \* parent records read for a sub-stream
MaxBatch == 3       \* SLICE_BATCH_SIZE is 1..MaxBatch

\* STREAM_SLICE_STEP, in the unit of the dates of the model.
StreamSliceStep == 2

NoCursor == 0 - 1

\* A start point that ignores the saved state.
StartPointIgnoresState(saved, start) == start

\* Where the slices begin: the cursor of the saved state, else start_date.
StartPoint(saved, start) == IF saved # NoCursor THEN saved ELSE start

TimeSlice(from, to) == [start_date |-> from, end_date |-> to]

\* A last batch that is yielded even when it is empty.
FlushParentsAlways(b) == <<[parents |-> b]>>

\* What stream_slices yields when the parent records are exhausted: the batch that
\* is left, if any.
FlushParents(b) == IF b # <<>> THEN <<[parents |-> b]>> ELSE <<>>

InitSlices ==
    /\ startDate \in 0..MaxDate
    /\ savedCursor \in {NoCursor} \cup 0..MaxDate
    /\ now \in 0..MaxDate
    /\ batchSize \in 1..MaxBatch
    /\ sliceFrom = StartPoint(savedCursor, startDate)
    /\ timeSlices = <<>>
    /\ slPc = "slicing"
    /\ parentsRead = 0
    /\ batch = <<>>
    /\ subSlices = <<>>

\* No slices are asked for, in the specifications of the other components.
IdleSlices ==
    /\ startDate = 0
    /\ savedCursor = NoCursor
    /\ now = 0
    /\ batchSize = 1
    /\ sliceFrom = 0
    /\ timeSlices = <<>>
    /\ slPc = "slicing"
    /\ parentsRead = 0
    /\ batch = <<>>
    /\ subSlices = <<>>

\* One turn of the slice loop: the slice from the current start to the earlier of
\* now and the start plus STREAM_SLICE_STEP; the next slice starts one step later.
NextSlice ==
    /\ slPc = "slicing"
    /\ sliceFrom < now
    /\ timeSlices' = Append(timeSlices,
                            TimeSlice(sliceFrom, Min(now, sliceFrom + StreamSliceStep)))
    /\ sliceFrom' = sliceFrom + StreamSliceStep
    /\ UNCHANGED <<startDate, savedCursor, now, batchSize, slPc, parentsRead, batch,
                   subSlices>>

\* The slice loop ends; a sub-stream goes on to read the parent's records.
SlicesEnd ==
    /\ slPc = "slicing"
    /\ sliceFrom >= now
    /\ slPc' = "parents"
    /\ UNCHANGED <<startDate, savedCursor, now, batchSize, sliceFrom, timeSlices,
                   parentsRead, batch, subSlices>>

\* The sub-stream reads the next record of its parent (the parentsRead + 1-th) and
\* yields a slice when SLICE_BATCH_SIZE parents are gathered.
TakeParent ==
    /\ slPc = "parents"
    /\ parentsRead < MaxParents
    /\ parentsRead' = parentsRead + 1
    /\ LET b == Append(batch, parentsRead + 1)
       IN IF Len(b) = batchSize
          THEN subSlices' = Append(subSlices, [parents |-> b]) /\ batch' = <<>>
          ELSE batch' = b /\ UNCHANGED subSlices
    /\ UNCHANGED <<startDate, savedCursor, now, batchSize, sliceFrom, timeSlices, slPc>>

\* The parent has no more records: the batch that is left is yielded.
EndOfParents ==
    /\ slPc = "parents"
    /\ subSlices' = subSlices \o FlushParents(batch)
    /\ batch' = <<>>
    /\ slPc' = "done"
    /\ UNCHANGED <<startDate, savedCursor, now, batchSize, sliceFrom, timeSlices,
                   parentsRead>>

(***************************************************************************)
(* DeclarativeComponentFactory (parsers/factory.py)                        *)
(*                                                                         *)
(* A Python value is a record with the same four fields whatever its type: *)
(* kind says what it is, s holds a string or a class, d a mapping from     *)
(* keys to values and l a list of values.  A mapping is a function whose   *)
(* domain is its set of keys.  config is handed unchanged to every call    *)
(* and to every constructor and is left out.  The definitions are taken to *)
(* validate against their class's schema, option values are strings and no *)
(* option is called class_name, type or options.                           *)
(***************************************************************************)
MaxListLen == 2    \* elements of a list of definitions

EmptyDict == [k \in {} |-> ""]

PyValue(kind, s, d, l) == [kind |-> kind, s |-> s, d |-> d, l |-> l]
NoneValue == PyValue("none", "", EmptyDict, <<>>)
PyStr(x) == PyValue("str", x, EmptyDict, <<>>)
Class(c) == PyValue("class", c, EmptyDict, <<>>)
Dict(f) == PyValue("dict", "", f, <<>>)
List(q) == PyValue("list", "", EmptyDict, q)
Error(e) == PyValue("error", e, EmptyDict, <<>>)

\* create(class_, config=config, **updated_kwargs)(): the instance of class_
\* made with these keyword arguments.
Create(class_, updated_kwargs) == PyValue("object", class_, updated_kwargs, <<>>)

\* lambda: full_definition, called: the definition validated against the
\* schema of class_.
FullDefinition(class_, full_definition) ==
    PyValue("definition", class_, full_definition, <<>>)

DeepCopy(v) == v

Without(f, key) == [k \in DOMAIN f \ {key} |-> f[k]]
With(f, key, v) == [k \in DOMAIN f \cup {key} |-> IF k = key THEN v ELSE f[k]]

\* The classes the names, the types and the default implementations of the
\* model stand for.
ClassTypesRegistry == [TypeB |-> "B"]
DefaultImplementationsRegistry == [InterfaceF |-> "DefaultF"]
ComponentClasses == {"A", "B", "DefaultF"}

\* getattr(importlib.import_module(module), class_name) of the name split at
\* its last dot: the modules of the model and the classes they hold.
Modules == [pkg |-> [A |-> "A"], other |-> [A |-> "B"]]

GetClassFromFullyQualifiedClassName(class_name) ==
    CASE class_name = "pkg.A" -> Modules["pkg"]["A"]
      [] class_name = "other.A" -> Modules["other"]["A"]

\* get_type_hints(parent_class.__init__): a hint is the pair of its origin
\* ("" when it is no generic) and its first argument or itself.
TypeHints(parent_class) ==
    CASE parent_class = "A" ->
           [f |-> <<"", "InterfaceF">>, g |-> <<"", "str">>, options |-> <<"Mapping", "str">>]
      [] parent_class \in {"B", "DefaultF"} ->
           [f |-> <<"List", "InterfaceF">>, g |-> <<"Optional", "str">>]
      [] OTHER -> EmptyDict

NoDefault == ""

MergeDictsFirstWins(d1, d2) ==
    [k \in DOMAIN d1 \cup DOMAIN d2 |-> IF k \in DOMAIN d1 THEN d1[k] ELSE d2[k]]

MergeDicts(d1, d2) ==
    [k \in DOMAIN d1 \cup DOMAIN d2 |-> IF k \in DOMAIN d2 THEN d2[k] ELSE d1[k]]

ClassNameWithoutType(definition) ==
    /\ definition.kind = "dict"
    /\ "class_name" \in DOMAIN definition.d
    /\ "type" \notin DOMAIN definition.d

IsObjectDefinitionWithClassName(definition) ==
    definition.kind = "dict" /\ "class_name" \in DOMAIN definition.d

IsObjectDefinitionWithType(definition) ==
    definition.kind = "dict" /\ "type" \in DOMAIN definition.d

GetDefaultType(parameter_name, parent_class) ==
    LET type_hints == TypeHints(parent_class)
    IN  IF parameter_name \notin DOMAIN type_hints
        THEN NoDefault
        ELSE LET interface == type_hints[parameter_name][2]
             IN  IF interface \in DOMAIN DefaultImplementationsRegistry
                 THEN DefaultImplementationsRegistry[interface]
                 ELSE NoDefault

\* sub.get("options", {}) of a mapping, {} of anything else
GetSubcomponentOptions(sub) ==
    IF sub.kind = "dict" /\ "options" \in DOMAIN sub.d
    THEN sub.d["options"].d
    ELSE EmptyDict

\* kwargs.get("options", dict())
KwargsOptions(kwargs) ==
    IF "options" \in DOMAIN kwargs THEN kwargs["options"].d ELSE EmptyDict

\* get_class_name: what it returns, and the definition it was handed as
\* the call leaves it (the type branch pops "type" from it).
GetClassName(definition) ==
    IF IsObjectDefinitionWithClassName(definition)
    THEN [ret |-> definition.d["class_name"], definition |-> definition]
    ELSE IF IsObjectDefinitionWithType(definition)
    THEN [ret |-> Class(ClassTypesRegistry[definition.d["type"].s]),
          definition |-> Dict(Without(definition.d, "type"))]
    ELSE [ret |-> Class("dict"), definition |-> definition]

RECURSIVE CreateSubcomponent(_, _, _, _, _)
RECURSIVE Build(_, _, _)
RECURSIVE CreateComponent(_, _)

\* create_component(component_definition, config, instantiate)()
CreateComponent(component_definition, instantiate) ==
    LET kwargs == DeepCopy(component_definition).d
    IN  IF "class_name" \notin DOMAIN kwargs
        THEN Error("KeyError")
        ELSE Build(kwargs["class_name"], instantiate, Without(kwargs, "class_name"))

\* build(class_or_class_name, config, instantiate, **kwargs)()
Build(class_or_class_name, instantiate, kwargs) ==
    LET class_ == IF class_or_class_name.kind = "str"
                  THEN GetClassFromFullyQualifiedClassName(class_or_class_name.s)
                  ELSE class_or_class_name.s
        withOptions ==
            IF "options" \in DOMAIN kwargs
            THEN With(kwargs, "options",
                      Dict([k \in DOMAIN kwargs["options"].d |->
                               CreateSubcomponent(k, kwargs["options"].d[k],
                                                  kwargs, class_, instantiate)]))
            ELSE kwargs
        updated_kwargs ==
            [k \in DOMAIN withOptions |->
                CreateSubcomponent(k, withOptions[k], withOptions, class_, instantiate)]
    IN  IF instantiate
        THEN Create(class_, updated_kwargs)
        ELSE IF class_ \notin ComponentClasses
        THEN Error("AttributeError")
        ELSE IF "options" \notin DOMAIN updated_kwargs
        THEN Error("KeyError")
        ELSE FullDefinition(class_,
                 With(MergeDicts(updated_kwargs["options"].d, updated_kwargs),
                      "config", Dict(EmptyDict)))

\* _create_subcomponent(key, definition, kwargs, config, parent_class,
\* instantiate): the five cases in the order of the code.
CreateSubcomponent(key, definition, kwargs, parent_class, instantiate) ==
    LET merged == MergeDicts(KwargsOptions(kwargs), GetSubcomponentOptions(definition))
    IN  IF IsObjectDefinitionWithClassName(definition)
        THEN CreateComponent(Dict(With(definition.d, "options", Dict(merged))),
                             instantiate)
        ELSE IF IsObjectDefinitionWithType(definition)
        THEN CreateComponent(
                 Dict(With(Without(With(definition.d, "options", Dict(merged)), "type"),
                           "class_name",
                           Class(ClassTypesRegistry[definition.d["type"].s]))),
                 instantiate)
        ELSE IF definition.kind = "dict"
        THEN LET expected_type == GetDefaultType(key, parent_class)
             IN  IF expected_type # NoDefault
                 THEN CreateComponent(
                          Dict(With(With(definition.d, "class_name", Class(expected_type)),
                                    "options", Dict(Without(merged, key)))),
                          instantiate)
                 ELSE definition
        ELSE IF definition.kind = "list"
        THEN List([i \in 1..Len(definition.l) |->
                      CreateSubcomponent(
                          key, definition.l[i],
                          MergeDicts(KwargsOptions(kwargs),
                                     GetSubcomponentOptions(definition.l[i])),
                          parent_class, instantiate)])
        ELSE definition

\* resolve(component_definition): what it returns, and the mapping of the
\* caller after the call.
Resolve(component_definition) ==
    LET definition == DeepCopy(component_definition)
        called == GetClassName(component_definition)
    IN  [ret |-> Dict(With(definition.d, "class_name", called.ret)),
         component_definition |-> called.definition]

\* ---- the definitions the factory is handed ----
OptionKeys == {"o1", "f"}
FieldKeys == {"f", "g"}
Headers == {"class_name", "type", "both", "neither"}

DefinitionHeader(h) ==
    [k \in (IF h \in {"class_name", "both"} THEN {"class_name"} ELSE {})
           \cup (IF h \in {"type", "both"} THEN {"type"} ELSE {}) |->
        IF k = "class_name" THEN PyStr("pkg.A") ELSE PyStr("TypeB")]

\* A mapping with header h whose options, when keys is not empty, give the
\* value level to each of keys.
Definition(h, level, keys, fields) ==
    Dict(MergeDicts(MergeDicts(DefinitionHeader(h), fields),
                    IF keys = {} THEN EmptyDict
                    ELSE [k \in {"options"} |-> Dict([o \in keys |-> PyStr(level)])]))

LeafDefinitions(level) ==
    {PyStr("scalar"), Definition("neither", level, {}, EmptyDict)}
    \cup {Definition(h, level, keys, EmptyDict) :
            h \in {"class_name", "type"}, keys \in {{}, {"o1"}}}

ChildDefinitions ==
    {PyStr("scalar")}
    \cup {Definition(h, "child", keys, EmptyDict) : h \in Headers, keys \in SUBSET OptionKeys}
    \cup {Definition(h, "child", keys, [k \in {key} |-> leaf]) :
            h \in Headers, keys \in SUBSET OptionKeys,
            key \in FieldKeys, leaf \in LeafDefinitions("grand")}
    \cup {List(q) : q \in UNION {[1..n -> LeafDefinitions("child")] : n \in 0..MaxListLen}}

InitFactory ==
    /\ \E h \in Headers, keys \in SUBSET OptionKeys, key \in FieldKeys :
         \E child \in ChildDefinitions :
           componentDefinition = Definition(h, "top", keys, [k \in {key} |-> child])
    /\ passed = componentDefinition
    /\ instantiateFlag \in BOOLEAN
    /\ resolved = NoneValue
    /\ component = NoneValue
    /\ facPc = "start"

IdleFactory ==
    /\ componentDefinition = NoneValue
    /\ passed = NoneValue
    /\ instantiateFlag = FALSE
    /\ resolved = NoneValue
    /\ component = NoneValue
    /\ facPc = "idle"

\* definition = factory.resolve(component_definition)
ResolveDefinition ==
    /\ facPc = "start"
    /\ resolved' = Resolve(componentDefinition).ret
    /\ componentDefinition' = Resolve(componentDefinition).component_definition
    /\ passed' = componentDefinition
    /\ facPc' = "resolved"
    /\ UNCHANGED <<instantiateFlag, component>>

\* factory.create_component(definition, config, instantiate)() on the
\* mapping the caller holds, or on the one resolve returned.
CreateTheComponent ==
    /\ facPc \in {"start", "resolved"}
    /\ LET definition == IF facPc = "start" THEN componentDefinition ELSE resolved
       IN  /\ component' = CreateComponent(definition, instantiateFlag)
           /\ passed' = definition
    /\ facPc' = "created"
    /\ UNCHANGED <<componentDefinition, resolved, instantiateFlag>>

(***************************************************************************)
(* ComponentConstructor.build (parsers/component_constructor.py)           *)
(*                                                                         *)
(* resolve_dependencies is a classmethod a component overrides: what it    *)
(* returns, or that it raises, is an input.  The call of build is followed *)
(* through its two steps, the call of resolve_dependencies and cls(...).   *)
(***************************************************************************)
Models == {"model1", "model2"}
Configs == {"config1", "config2"}
DependencyConstructors == {"constructor1", "constructor2"}
AdditionalFlags == {"None", "flags"}
ExtraKwargs == {EmptyDict, [stream_name |-> "s"]}

\* the mappings resolve_dependencies may return; the one of the base class is {}
ResolvedDependencies == {EmptyDict, [name |-> "a"], [name |-> "b", parser |-> "p"]}

\* cls.resolve_dependencies(model=model, config=config,
\* dependency_constructor=dependency_constructor,
\* additional_flags=additional_flags, **kwargs): the arguments of the call
ResolveDependenciesCall(args) ==
    [model |-> args.model, config |-> args.config,
     dependency_constructor |-> args.dependency_constructor,
     additional_flags |-> args.additional_flags, kwargs |-> args.kwargs]

InstanceWithoutDependencies(resolved_dependencies) == [kwargs |-> EmptyDict]

\* cls(**resolved_dependencies)
Instance(resolved_dependencies) == [kwargs |-> resolved_dependencies]

InitConstructor ==
    /\ buildArgs \in [model : Models, config : Configs,
                      dependency_constructor : DependencyConstructors,
                      additional_flags : AdditionalFlags, kwargs : ExtraKwargs]
    /\ resolveCalls = <<>>
    /\ resolvedDependencies = EmptyDict
    /\ instances = <<>>
    /\ ccRaised = ""
    /\ ccPc = "build"

IdleConstructor ==
    /\ buildArgs = EmptyDict
    /\ resolveCalls = <<>>
    /\ resolvedDependencies = EmptyDict
    /\ instances = <<>>
    /\ ccRaised = ""
    /\ ccPc = "idle"

\* build calls cls.resolve_dependencies
CallResolveDependencies ==
    /\ ccPc = "build"
    /\ resolveCalls' = Append(resolveCalls, ResolveDependenciesCall(buildArgs))
    /\ ccPc' = "resolving"
    /\ UNCHANGED <<buildArgs, resolvedDependencies, instances, ccRaised>>

\* resolve_dependencies returns a mapping
DependenciesResolved ==
    /\ ccPc = "resolving"
    /\ \E deps \in ResolvedDependencies : resolvedDependencies' = deps
    /\ ccPc' = "resolved"
    /\ UNCHANGED <<buildArgs, resolveCalls, instances, ccRaised>>

\* resolve_dependencies raises: the exception leaves build
ResolveDependenciesRaises ==
    /\ ccPc = "resolving"
    /\ ccRaised' = "resolve_dependencies"
    /\ ccPc' = "failed"
    /\ UNCHANGED <<buildArgs, resolveCalls, resolvedDependencies, instances>>

\* return cls(**resolved_dependencies)
ConstructComponent ==
    /\ ccPc = "resolved"
    /\ instances' = Append(instances, Instance(resolvedDependencies))
    /\ ccPc' = "built"
    /\ UNCHANGED <<buildArgs, resolveCalls, resolvedDependencies, ccRaised>>

(***************************************************************************)
(* Specifications                                                          *)
(***************************************************************************)
Init == InitOrch /\ InitBulk /\ numPages = 1 /\ IdleRest /\ IdleMerge /\ IdleCsv /\ IdleCheck /\ IdleSlices /\ IdleFactory /\ IdleConstructor

Next ==
    \/ StartStream /\ UNCHANGED exceptOrch
    \/ OpenSlice /\ UNCHANGED exceptOrch
    \/ (\E c \in Cursors : ReadRecord(c)) /\ UNCHANGED exceptOrch
    \/ EndSlice /\ UNCHANGED exceptOrch
    \/ RateLimit /\ UNCHANGED exceptOrch
    \/ StreamError /\ UNCHANGED exceptOrch

Spec == Init /\ [][Next]_vars

InitBulkRead == InitBulk /\ InitOrch /\ interval = 1 /\ IdleRest /\ IdleMerge /\ IdleCsv /\ IdleCheck /\ IdleSlices /\ IdleFactory /\ IdleConstructor

NextBulk ==
    \/ (\E resp \in CreateResponses : CreateJob(resp)) /\ UNCHANGED exceptBulk
    \/ (\E ans \in PollAnswers : Poll(ans)) /\ UNCHANGED exceptBulk
    \/ WaitTimedOut /\ UNCHANGED exceptBulk
    \/ (\E ok \in BOOLEAN : FetchPage(ok)) /\ UNCHANGED exceptBulk
    \/ ReadFails /\ UNCHANGED exceptBulk
    \/ DeleteJob /\ UNCHANGED exceptBulk
    \/ ReadRest /\ UNCHANGED exceptBulk

SpecBulk == InitBulkRead /\ [][NextBulk]_vars

\* The event loop keeps running the read: every request is answered or raises.
SpecBulkFair == SpecBulk /\ WF_vars(NextBulk)

InitRestStream == InitRest /\ InitOrch /\ interval = 1 /\ InitBulk /\ numPages = 1 /\ IdleMerge /\ IdleCsv /\ IdleCheck /\ IdleSlices /\ IdleFactory /\ IdleConstructor

NextRest ==
    \/ BuildStream /\ UNCHANGED exceptRest
    \/ ChunkStep /\ UNCHANGED exceptRest
    \/ ChunkEnd /\ UNCHANGED exceptRest

SpecRest == InitRestStream /\ [][NextRest]_vars

InitMergeRead == InitMerge /\ InitOrch /\ interval = 1 /\ InitBulk /\ numPages = 1 /\ IdleRest /\ IdleCsv /\ IdleCheck /\ IdleSlices /\ IdleFactory /\ IdleConstructor

NextMerge ==
    \/ (\E c \in Chunks : FetchChunkPage(c)) /\ UNCHANGED exceptMerge
    \/ EmitMerged /\ UNCHANGED exceptMerge

SpecMerge == InitMergeRead /\ [][NextMerge]_vars

InitCsvRead == InitCsv /\ InitOrch /\ interval = 1 /\ InitBulk /\ numPages = 1 /\ IdleRest /\ IdleMerge /\ IdleCheck /\ IdleSlices /\ IdleFactory /\ IdleConstructor

NextCsv ==
    \/ (\E ok \in BOOLEAN : AwaitJob(ok)) /\ UNCHANGED exceptCsv
    \/ Download /\ UNCHANGED exceptCsv
    \/ OpenFile /\ UNCHANGED exceptCsv
    \/ YieldRow /\ UNCHANGED exceptCsv
    \/ EndOfFile /\ UNCHANGED exceptCsv
    \/ RetryFetch /\ UNCHANGED exceptCsv

SpecCsv == InitCsvRead /\ [][NextCsv]_vars

InitCheckConnection == InitCheck /\ InitOrch /\ interval = 1 /\ InitBulk /\ numPages = 1 /\ IdleRest /\ IdleMerge /\ IdleCsv /\ IdleSlices /\ IdleFactory /\ IdleConstructor

NextCheck ==
    \/ Login /\ UNCHANGED exceptCheck
    \/ Describe /\ UNCHANGED exceptCheck

SpecCheck == InitCheckConnection /\ [][NextCheck]_vars

InitStreamSlices == InitSlices /\ InitOrch /\ interval = 1 /\ InitBulk /\ numPages = 1 /\ IdleRest /\ IdleMerge /\ IdleCsv /\ IdleCheck /\ IdleFactory /\ IdleConstructor

NextSlices ==
    \/ NextSlice /\ UNCHANGED exceptSlice
    \/ SlicesEnd /\ UNCHANGED exceptSlice
    \/ TakeParent /\ UNCHANGED exceptSlice
    \/ EndOfParents /\ UNCHANGED exceptSlice

SpecSlices == InitStreamSlices /\ [][NextSlices]_vars

InitFactoryBuild == InitFactory /\ InitOrch /\ interval = 1 /\ InitBulk /\ numPages = 1 /\ IdleRest /\ IdleMerge /\ IdleCsv /\ IdleCheck /\ IdleSlices /\ IdleConstructor

NextFactory ==
    \/ ResolveDefinition /\ UNCHANGED exceptFactory
    \/ CreateTheComponent /\ UNCHANGED exceptFactory

SpecFactory == InitFactoryBuild /\ [][NextFactory]_vars

InitConstructorBuild == InitConstructor /\ InitOrch /\ interval = 1 /\ InitBulk /\ numPages = 1 /\ IdleRest /\ IdleMerge /\ IdleCsv /\ IdleCheck /\ IdleSlices /\ IdleFactory

NextConstructor ==
    \/ CallResolveDependencies /\ UNCHANGED exceptConstructor
    \/ DependenciesResolved /\ UNCHANGED exceptConstructor
    \/ ResolveDependenciesRaises /\ UNCHANGED exceptConstructor
    \/ ConstructComponent /\ UNCHANGED exceptConstructor

SpecConstructor == InitConstructorBuild /\ [][NextConstructor]_vars

(***************************************************************************)
(* Claims about the Sync Orchestrator (checked under Spec)                 *)
(***************************************************************************)
IsRecordOf(s, m) == m.type = "RECORD" /\ m.stream = s
IsStateOf(s, m) == m.type = "STATE" /\ m.stream = s

\* Cursor values of the records of s in the output, in order.
EmittedCursors(s) ==
    LET r == SelectSeq(out, LAMBDA m : IsRecordOf(s, m))
    IN [i \in 1..Len(r) |-> r[i].value]
\* Cursor values of the records the read of s produced, in order.
ReadCursors(s) == [i \in 1..Len(readLog[s]) |-> readLog[s][i].cursor]
\* Number of records of s emitted before position p of the output.
RecordsBefore(s, p) == Cardinality({q \in 1..(p - 1) : IsRecordOf(s, out[q])})
\* Position in the output of the j-th record of s.
RecordPos(s, j) ==
    CHOOSE p \in 1..Len(out) : IsRecordOf(s, out[p]) /\ RecordsBefore(s, p) = j - 1
StatePositions(s) == {p \in 1..Len(out) : IsStateOf(s, out[p])}
\* The Sync State after the first n records of s: the greatest cursor among them, each
\* capped at the end of its slice, and never below the state the sync started from.
StateAfter(s, n) ==
    LET vals == {StartState[s]} \cup
                {Min(readLog[s][i].cursor, SliceEnd(readLog[s][i].slice)) : i \in 1..n}
    IN CHOOSE m \in vals : \A v \in vals : v <= m
\* Number of records of s up to its last checkpoint boundary.
LastBoundary(s) == (Len(readLog[s]) \div interval) * interval
LaterStreamsUntouched(i) ==
    \A j \in (i + 1)..Len(Catalog) :
        status[Catalog[j]] = "NotStarted" /\ invoked[Catalog[j]] = 0

\* C1: once a stream is rate-limited (REQUEST_LIMIT_EXCEEDED) the sync has ended with
\* success, no later stream of the catalog was or is ever started or invoked, and no
\* further record is read or message emitted.
C1_RateLimitEndsSyncGracefully ==
    /\ [](\A i \in 1..Len(Catalog) :
            status[Catalog[i]] = "RateLimited" =>
                sync = "succeeded" /\ LaterStreamsUntouched(i))
    /\ [][(\E s \in Streams : status[s] = "RateLimited") =>
            (out' = out /\ readLog' = readLog /\ invoked' = invoked /\ sync' = sync)]_vars

C1_Witness ==
    /\ status[Catalog[1]] = "RateLimited"
    /\ Len(readLog[Catalog[1]]) >= 2
    /\ status[Catalog[2]] = "NotStarted"

\* C2 (as stated): for a rate-limited stream every record read was emitted, a state
\* message carries the cursor of the record at the last checkpoint boundary reached,
\* and the next stream is never invoked.
C2_StateIsCursorOfBoundaryRecord ==
    \A i \in 1..Len(Catalog) :
        LET s == Catalog[i]
            b == LastBoundary(s)
        IN status[s] = "RateLimited" =>
            /\ EmittedCursors(s) = ReadCursors(s)
            /\ b >= 1 => \E p \in StatePositions(s) : out[p].value = readLog[s][b].cursor
            /\ LaterStreamsUntouched(i)

\* C2 (amended): for a rate-limited stream every record read was emitted, the message
\* right after the record at the last checkpoint boundary reached is a state message
\* carrying the Sync State as of that record (the greatest cursor read up to the
\* boundary, each capped at its slice end), whatever was read after the boundary, and
\* the next stream is never invoked.
C2_StateIsStateAtBoundary ==
    \A i \in 1..Len(Catalog) :
        LET s == Catalog[i]
            b == LastBoundary(s)
        IN status[s] = "RateLimited" =>
            /\ EmittedCursors(s) = ReadCursors(s)
            /\ b >= 1 =>
                 /\ RecordPos(s, b) < Len(out)
                 /\ out[RecordPos(s, b) + 1] = StateMsg(s, StateAfter(s, b))
            /\ LaterStreamsUntouched(i)

C2_Witness ==
    LET s == Catalog[1]
    IN /\ status[s] = "RateLimited"
       /\ interval = 2
       /\ Len(readLog[s]) = 3
       /\ readLog[s][3].cursor > readLog[s][2].cursor

\* What C3 as stated and as amended share: a state message follows every N-th
\* record, the stream's last message is a state message, and every state message
\* carries exactly the Sync State of the records emitted before it.
StateMessagesCoverRecords(s) ==
    /\ \A j \in 1..Len(readLog[s]) :
          j % interval = 0 =>
              /\ RecordPos(s, j) < Len(out)
              /\ IsStateOf(s, out[RecordPos(s, j) + 1])
    /\ \A p \in StatePositions(s) : out[p].value = StateAfter(s, RecordsBefore(s, p))
    /\ EmittedCursors(s) = ReadCursors(s)

\* C3 (as stated): a completed stream has a state message after every N-th record
\* and exactly one more, at completion.
C3_OneFinalStateMessage ==
    \A s \in Streams :
        status[s] = "Completed" =>
            /\ StateMessagesCoverRecords(s)
            /\ Cardinality(StatePositions(s)) = (Len(readLog[s]) \div interval) + 1

\* C3 (amended): a completed stream has a state message after every N-th record and
\* one more at the end of every slice (the last of them at completion), and every
\* state message carries the state of exactly the records emitted before it.
C3_StateMessagePerSlice ==
    \A s \in Streams :
        status[s] = "Completed" =>
            /\ StateMessagesCoverRecords(s)
            /\ Cardinality(StatePositions(s)) = (Len(readLog[s]) \div interval) + NumSlices
            /\ \A k \in 1..NumSlices :
                 \E p \in StatePositions(s) :
                     RecordsBefore(s, p) =
                         Cardinality({i \in 1..Len(readLog[s]) : readLog[s][i].slice <= k})

C3_Witness ==
    LET s == Catalog[1]
    IN /\ status[s] = "Completed"
       /\ interval = 2
       /\ Len(readLog[s]) = 3
       /\ readLog[s][1].slice = 1
       /\ readLog[s][2].slice = 2

(***************************************************************************)
(* Claims about the bulk read (checked under SpecBulk and SpecBulkFair)    *)
(***************************************************************************)
\* The rows of pages 1..k in page order.
AllPages(k) == [i \in 1..(k * RowsPerPage) |-> i]
\* Result pages read so far: every request of the log but one that was refused or
\* whose page could not be parsed.
PagesRead ==
    IF result \in {"HttpError", "ParseError"} /\ lastPoll = "JobComplete"
    THEN Len(fetchLog) - 1 ELSE Len(fetchLog)

\* C4: the results requests follow the locator chain: the first carries no locator,
\* each later one the locator the page before returned, none is issued after the null
\* locator, k pages take k requests, and the records are the rows of the pages read,
\* in page order, none lost or repeated.
C4_LocatorChainInOrder ==
    /\ \A i \in 1..Len(fetchLog) :
          fetchLog[i] = IF i = 1 THEN NoLocator ELSE Loc(i - 1)
    /\ Len(fetchLog) <= numPages
    /\ pc = "fetch" => Len(fetchLog) < numPages
    /\ restReads = 0 => records = AllPages(PagesRead)
    /\ (result = "ok" /\ restReads = 0) =>
          (Len(fetchLog) = numPages /\ records = AllPages(numPages))

C4_Witness == result = "ok" /\ numPages = 3 /\ Len(fetchLog) = 3 /\ Len(records) = 3 * RowsPerPage

\* C5: a read whose job was last reported JobComplete, after any number of
\* UploadComplete/InProgress answers, ends like one whose first poll says JobComplete
\* (success with the rows of all pages); and a non-terminal answer never ends a wait
\* before its deadline.
C5_SlowJobSameAsImmediate ==
    /\ (pc = "done" /\ lastPoll = "JobComplete" /\ result \notin {"HttpError", "ParseError"}) =>
          (result = "ok" /\ records = AllPages(numPages))
    /\ (lastPoll \in NonTerminalStates /\ pc # "poll") => elapsed >= WaitTimeout

C5_Witness ==
    /\ result = "ok"
    /\ lastPoll = "JobComplete"
    /\ attempt = 1
    /\ nonTerminal >= 1
    /\ polls = nonTerminal + 1

\* C6: polling is bounded by max_attempts * wait_timeout, a job that only ever
\* reports non-terminal states ends the read with the fatal "stream using BULK API
\* was failed" error and no records, and every read ends.
C6_PollingTerminates ==
    /\ [](polls <= MaxAttempts * WaitTimeout)
    /\ []((pc = "done" /\ nonTerminal = MaxAttempts * WaitTimeout) =>
             /\ result = "BulkFailed"
             /\ errBody = "Job for Account stream using BULK API was failed."
             /\ records = <<>>)
    /\ <>(pc = "done")

C6_Witness ==
    /\ pc = "done"
    /\ nonTerminal = MaxAttempts * WaitTimeout
    /\ polls = nonTerminal
    /\ result = "BulkFailed"

\* C7: a status poll answered TXN_SECURITY_METERING_ERROR ends the read at once with
\* the configuration error carrying the fixed remediation message, and no further
\* poll or job creation follows.
C7_TransientAuthNotRetried ==
    /\ [](lastPoll = "TXN_SECURITY_METERING_ERROR" =>
             /\ pc = "done"
             /\ result = "ConfigError"
             /\ errBody = TransientAuthMessage)
    /\ [][lastPoll = "TXN_SECURITY_METERING_ERROR" =>
             (polls' = polls /\ attempt' = attempt /\ restReads' = restReads)]_vars

C7_Witness ==
    /\ lastPoll = "TXN_SECURITY_METERING_ERROR"
    /\ result = "ConfigError"
    /\ polls >= 2

ClassifiedRejections == {InvalidEntity, RequestLimitExceeded, NotQueryable, LimitExceeded}
ExpectedLog ==
    [INVALIDENTITY |-> "is not supported by the Bulk API",
     REQUEST_LIMIT_EXCEEDED |-> "API limit reached",
     API_ERROR |-> "The stream 'Account' is not queryable,",
     LIMIT_EXCEEDED |-> "Your API key for Salesforce has reached its limit for the 24-hour period. We will resume replication once the limit has elapsed."]

\* C8: a job creation rejected with INVALIDENTITY (400), REQUEST_LIMIT_EXCEEDED
\* (403), API_ERROR 'API does not support query' (400) or LIMIT_EXCEEDED (400) makes
\* create_stream_job return None and log the error of that code, without raising.
C8_ClassifiedRejectionReturnsNone ==
    createResp \in ClassifiedRejections =>
        /\ createRet = "None"
        /\ logged # <<>>
        /\ logged[Len(logged)] = ExpectedLog[createResp.errorCode]
        /\ result # "HttpError"
        /\ pc \in {"rest", "done"}

C8_Witness ==
    /\ createResp = LimitExceeded
    /\ createRet = "None"
    /\ Len(logged) = 1

\* C9: the fallback to REST happens at most once, only when job creation returned no
\* job and before any bulk result was fetched; a creation rejected with INVALIDENTITY
\* ends in a successful read of exactly the records of the REST read.
C9_FallbackToRestOnce ==
    /\ restReads <= 1
    /\ pc = "rest" => (createRet = "None" /\ records = <<>> /\ fetchLog = <<>>)
    /\ restReads = 1 =>
          /\ createRet = "None"
          /\ fetchLog = <<>>
          /\ records = RestRecords
          /\ result = "ok"
    /\ (createResp = InvalidEntity /\ pc = "done") => restReads = 1

C9_Witness ==
    /\ createResp = InvalidEntity
    /\ pc = "done"
    /\ restReads = 1
    /\ records = RestRecords

\* C10: a job creation rejected with a 400 that carries no classified error code ends
\* read_records with the HTTP error and its original body: no record, no fallback.
C10_UnclassifiedRejectionRaises ==
    createResp = Unclassified =>
        /\ createRet = "raised"
        /\ pc = "done"
        /\ result = "HttpError"
        /\ errBody = "test_error"
        /\ restReads = 0
        /\ records = <<>>

C10_Witness ==
    /\ createResp = Unclassified
    /\ result = "HttpError"
    /\ errBody = "test_error"

(***************************************************************************)
(* Stream Selector                                                         *)
(***************************************************************************)
StreamBuilt == strategy \in {"Bulk", "Rest"}
Refused == ~HasPrimaryKey(entity) /\ TooManyProperties(entity)

C13_NoKeyTooWideIsAnError ==
    (strategy # "none" /\ ~HasPrimaryKey(entity) /\ TooManyProperties(entity)) =>
        /\ strategy = "Error"
        /\ cPc = "done"
        /\ cChunks = <<>>

C13_Witness ==
    /\ strategy = "Error"
    /\ HasCompoundField(entity)
    /\ entity.name \notin UnsupportedBulkApiObjects

\* C14 as stated: the rules apply in the order (a), (b), (c), (d): the
\* unsupported list and the compound fields give Rest first, the error for a
\* missing primary key on a too wide entity is reached only when neither
\* applies, every other entity gets Bulk.
C14_RulesInStatedOrder ==
    strategy # "none" =>
        strategy = IF entity.name \in UnsupportedBulkApiObjects THEN "Rest"
                   ELSE IF HasCompoundField(entity) THEN "Rest"
                   ELSE IF ~HasPrimaryKey(entity) /\ TooManyProperties(entity) THEN "Error"
                   ELSE "Bulk"

\* C14: the outcome is a function of the entity descriptor alone, with the
\* error for a missing primary key on a too wide entity decided before the API
\* type: such an entity is refused even when (a) or (b) applies; otherwise (a)
\* gives Rest, then (b) gives Rest, and every remaining entity gets Bulk.
C14_ErrorDecidedBeforeApiType ==
    strategy # "none" =>
        strategy = IF ~HasPrimaryKey(entity) /\ TooManyProperties(entity) THEN "Error"
                   ELSE IF entity.name \in UnsupportedBulkApiObjects THEN "Rest"
                   ELSE IF HasCompoundField(entity) THEN "Rest"
                   ELSE "Bulk"

C14_Witness ==
    /\ strategy = "Error"
    /\ entity.name \in UnsupportedBulkApiObjects
    /\ ~HasCompoundField(entity)

(***************************************************************************)
(* Property Chunker: chunk_properties                                      *)
(***************************************************************************)
ChunksYielded == { cChunks[i] : i \in 1..Len(cChunks) }

\* C15: every field subset chunk_properties yields for an entity with a
\* primary key contains the primary key, and so does the subset it is still
\* filling.
C15_EveryChunkHasPrimaryKey ==
    (strategy = "Rest" /\ HasPrimaryKey(entity)) =>
        /\ \A chunk \in ChunksYielded : entity.pk \in chunk
        /\ entity.pk \in cLocal

C15_Witness ==
    /\ cPc = "done"
    /\ Len(cChunks) >= 2
    /\ HasPrimaryKey(entity)
    /\ entity.pk > 1
    /\ \A chunk \in ChunksYielded : entity.pk \in chunk

\* C16: the query URL of every yielded subset is strictly shorter than the
\* request size limit, and once chunk_properties has ended every field of the
\* entity is in at least one subset.
C16_ChunksFitTheUrlAndCoverTheFields ==
    strategy = "Rest" =>
        /\ \A chunk \in ChunksYielded : UrlLength(entity, chunk) < RequestSizeLimits
        /\ cPc = "done" => UNION ChunksYielded = 1..Len(entity.fields)

C16_Witness ==
    /\ cPc = "done"
    /\ Len(cChunks) >= 2
    /\ \E chunk \in ChunksYielded : SumLen(entity.fields, chunk) > MaxPropertiesLength

(***************************************************************************)
(* Property Chunker: merge of the chunk results by primary key             *)
(***************************************************************************)
\* The primary keys chunk c has returned in the pages read so far.
ReturnedKeys(c) ==
    LET all == SortedSeq(serverKeys[c])
    IN { all[i] : i \in 1..Min(fetched[c] * pageSize[c], Len(all)) }

AllReturnedKeys == UNION { ReturnedKeys(c) : c \in Chunks }

\* The record of key k with the fields of every chunk that returned k.
UnionRecord(k) ==
    LET fields == {"Id"} \cup UNION { ChunkFields[c] : c \in { d \in Chunks : k \in ReturnedKeys(d) } }
    IN [f \in fields |-> IF f = "Id" THEN k ELSE FieldValue(f)]

EmittedKeys == { emitted[i].Id : i \in 1..Len(emitted) }

\* C17: the chunked read yields exactly one record per primary key that some
\* chunk returned, and the fields of that record are the union of the fields of
\* the chunks that returned the key, however each chunk is paginated.
C17_OneRecordPerKeyWithUnionedFields ==
    mPc = "done" =>
        /\ Len(emitted) = Cardinality(AllReturnedKeys)
        /\ \A k \in AllReturnedKeys :
              \E i \in 1..Len(emitted) :
                  /\ emitted[i] = UnionRecord(k)
                  /\ \A j \in 1..Len(emitted) : emitted[j].Id = k => j = i

C17_Witness ==
    /\ mPc = "done"
    /\ serverKeys[1] = Keys
    /\ serverKeys[2] = Keys
    /\ fetched[1] = 1
    /\ fetched[2] > 1
    /\ Len(emitted) = MaxKeys

\* All the records of chunk c, over all its pages.
ChunkRecords(c) ==
    LET all == SortedSeq(serverKeys[c])
    IN [i \in 1..Len(all) |-> PartialRecord(c, all[i])]

RECURSIVE MergeChunks(_, _)
MergeChunks(a, order) ==
    IF order = <<>> THEN a
    ELSE MergeChunks(MergePage(a, ChunkRecords(Head(order))), Tail(order))

RecordSet(a) == { a[k] : k \in DOMAIN a }

ChunkOrders == { o \in [Chunks -> Chunks] : \A i, j \in Chunks : o[i] = o[j] => i = j }

\* C18: the merge is commutative in the chunk order: merging the results of
\* the chunks in any two orders gives the same set of records, and that set is
\* what the read has accumulated whatever the order in which it fetched the
\* pages.
C18_MergeIsCommutative ==
    /\ \A o1, o2 \in ChunkOrders :
          RecordSet(MergeChunks(EmptyAcc, o1)) = RecordSet(MergeChunks(EmptyAcc, o2))
    /\ mPc = "done" =>
          \A o \in ChunkOrders : RecordSet(acc) = RecordSet(MergeChunks(EmptyAcc, o))

C18_Witness ==
    /\ mPc = "done"
    /\ serverKeys[1] \cap serverKeys[2] # {}
    /\ serverKeys[1] # serverKeys[2]
    /\ keyOrder # <<>>
    /\ keyOrder[1] \in serverKeys[2] \ serverKeys[1]

\* C19: a chunk that returns no record adds no key: the keys of the
\* accumulated records are at every moment the keys some chunk has returned,
\* the keys of the result are the keys returned by at least one chunk, and when
\* every chunk is empty the read yields no record.
C19_NoPhantomKeys ==
    /\ DOMAIN acc = AllReturnedKeys
    /\ mPc = "done" =>
          /\ EmittedKeys = UNION { serverKeys[c] : c \in Chunks }
          /\ (\A c \in Chunks : serverKeys[c] = {}) => emitted = <<>>

C19_Witness ==
    /\ mPc = "done"
    /\ \A c \in Chunks : serverKeys[c] = {} /\ fetched[c] = 1
    /\ emitted = <<>>

KeepsKeysAndFields ==
    \A k \in DOMAIN acc :
        /\ k \in DOMAIN acc'
        /\ \A f \in DOMAIN acc[k] : f \in DOMAIN acc'[k] /\ acc'[k][f] = acc[k][f]

\* C20: processing a chunk never removes a key nor a field that is already
\* there: a key an earlier chunk returned stays, with the fields it has, when a
\* later chunk does not return it, and it is in the records the read yields.
C20_KeysAndFieldsAreKept ==
    [][/\ KeepsKeysAndFields
       /\ mPc' = "done" =>
             \A k \in DOMAIN acc : \E i \in 1..Len(emitted') : emitted'[i] = acc[k]]_vars

C20_Witness ==
    /\ mPc = "done"
    /\ serverKeys[2] # {}
    /\ \E i \in 1..Len(emitted) :
          /\ emitted[i].Id \in serverKeys[1] \ serverKeys[2]
          /\ DOMAIN emitted[i] = {"Id"} \cup ChunkFields[1]
          /\ keyOrder[1] = emitted[i].Id

(***************************************************************************)
(* CSV Chunk Reader                                                        *)
(***************************************************************************)
StrippedPayload == SelectSeq(payload, LAMBDA c : c # Nul)

\* The rows a complete read of a file yields: the mappings of the rows before
\* the first malformed one, and whether there was one.
ExpectedRead(text) ==
    LET lines == Lines(text)
        rows == DataRows(text)
        width == IF lines = <<>> THEN 0 ELSE Len(lines[1])
        bad == { i \in 1..Len(rows) : Malformed(rows[i], width) }
        good == IF bad = {} THEN Len(rows)
                ELSE (CHOOSE i \in bad : \A j \in bad : i <= j) - 1
    IN IF lines # <<>> /\ Malformed(lines[1], width)
       THEN ReadOutcome(<<>>, "ParseError")
       ELSE ReadOutcome([i \in 1..good |-> RowMapping(lines[1], rows[i])],
                        IF bad = {} THEN "ok" ELSE "ParseError")

\* C21: the rows of download_data followed by read_with_chunks are the rows
\* of the same payload with every null byte removed, and a payload made only
\* of null bytes gives no rows.
C21_NullBytesAreStripped ==
    \A i \in 1..Len(csvReads) :
        /\ csvReads[i] = ExpectedRead(StrippedPayload)
        /\ StrippedPayload = <<>> => csvReads[i] = ReadOutcome(<<>>, "ok")

C21_Witness ==
    /\ csvReads # <<>>
    /\ \E i \in 1..Len(payload) : payload[i] = Nul
    /\ Len(StrippedPayload) > DownloadChunkSize
    /\ csvReads[1].result = "ok"
    /\ csvReads[1].rows # <<>>

\* The raw fields of the file the payload is downloaded to.
FileLines == Lines(DownloadData(payload))
RawField(k, i) == IF i <= Len(FileLines[k + 1]) THEN FileLines[k + 1][i] ELSE <<>>

\* C22: in every row mapping the reader yields, an empty CSV value is null
\* and never the empty string, and a non-empty value is the exact string of
\* the file, leading zeros included; the columns are those of the header, in
\* order.
C22_EmptyIsNullOthersVerbatim ==
    \A k \in 1..Len(csvOut) :
        /\ Len(csvOut[k]) = Len(FileLines[1])
        /\ \A i \in 1..Len(csvOut[k]) :
              /\ csvOut[k][i].name = FileLines[1][i]
              /\ RawField(k, i) = <<>> => csvOut[k][i].value = [isNull |-> TRUE, str |-> <<>>]
              /\ RawField(k, i) # <<>> =>
                    csvOut[k][i].value = [isNull |-> FALSE, str |-> RawField(k, i)]

C22_Witness ==
    /\ csvPc = "done"
    /\ \E k \in 1..Len(csvOut) :
          /\ Len(FileLines[k + 1]) = 2
          /\ RawField(k, 1) = <<>>
          /\ csvOut[k][1].value.isNull
          /\ Len(RawField(k, 2)) = 2
          /\ csvOut[k][2].value.str = RawField(k, 2)

AllRawFields == UNION { { FileLines[r][i] : i \in 1..Len(FileLines[r]) } : r \in 1..Len(FileLines) }
TooWideRows == { r \in 1..Len(FileLines) : Len(FileLines[r]) > Len(FileLines[1]) }

\* C24: the field-size ceiling is above the default limit; a read ends with a
\* parse error when the file has a field above the ceiling, and a file whose
\* fields are all within the ceiling, also those above the default limit, is
\* read in full: no row is skipped and no value is cut.
C24_FieldSizeCeiling ==
    /\ DefaultFieldSizeLimit < CsvFieldSizeLimit
    /\ \A n \in 1..Len(csvReads) :
          /\ (\E f \in AllRawFields : Len(f) > CsvFieldSizeLimit) =>
                csvReads[n].result = "ParseError"
          /\ ((\A f \in AllRawFields : Len(f) <= CsvFieldSizeLimit) /\ TooWideRows = {}) =>
                /\ csvReads[n].result = "ok"
                /\ Len(csvReads[n].rows) = Len(FileLines) - (IF FileLines = <<>> THEN 0 ELSE 1)
                /\ \A k \in 1..Len(csvReads[n].rows) : \A i \in 1..Len(FileLines[k + 1]) :
                      Len(csvReads[n].rows[k][i].value.str) = Len(FileLines[k + 1][i])

C24_Witness ==
    /\ csvReads # <<>>
    /\ csvReads[1].result = "ok"
    /\ \E k \in 1..Len(csvReads[1].rows) : \E i \in 1..Len(csvReads[1].rows[k]) :
          Len(csvReads[1].rows[k][i].value.str) > DefaultFieldSizeLimit

\* C29: a temporary result file exists only between the download of a page
\* and the end of the read of that page: there is none before a download, none
\* after the poller's fatal error, and none once the read has ended, with
\* success or with a parse error.
C29_TemporaryFileScopedToRead ==
    /\ tmpFile.exists => csvPc \in {"open", "rows"}
    /\ csvPc = "done" => ~tmpFile.exists

C29_Witness ==
    /\ csvPc = "done"
    /\ csvResult = "ParseError"
    /\ csvOut # <<>>
    /\ ~tmpFile.exists

(***************************************************************************)
(* Sync State and stream life cycle                                        *)
(***************************************************************************)
\* C25: the cursor of a stream only moves forward: the state messages of a
\* stream carry non-decreasing cursor values, none below the state the sync
\* started from, and the Sync State entry itself is never below it.
C25_CursorOnlyMovesForward ==
    \A s \in Streams :
        /\ cursor[s] >= StartState[s]
        /\ \A p \in StatePositions(s) :
              /\ out[p].value >= StartState[s]
              /\ \A q \in StatePositions(s) : p < q => out[p].value <= out[q].value

C25_Witness ==
    \E s \in Streams :
        /\ Cardinality(StatePositions(s)) >= 2
        /\ \E i, j \in 1..Len(readLog[s]) :
              /\ i < j
              /\ readLog[s][i].cursor > readLog[s][j].cursor
              /\ readLog[s][i].slice = readLog[s][j].slice

FinalStates == {"Completed", "RateLimited", "Failed"}

StatusStep(s) ==
    \/ status'[s] = status[s]
    \/ status[s] = "NotStarted" /\ status'[s] = "SlicingInProgress"
    \/ status[s] = "SlicingInProgress" /\ status'[s] = "ReadingRecords"
    \/ status[s] = "ReadingRecords" /\ status'[s] \in FinalStates

\* C26: a stream moves only along NotStarted -> SlicingInProgress ->
\* ReadingRecords -> Completed | RateLimited | Failed, one step at a time and
\* never back; a stream in a final state reads nothing more; once a stream is
\* RateLimited no stream leaves NotStarted.
C26_StreamLifeCycle ==
    [][\A s \in Streams :
          /\ StatusStep(s)
          /\ status[s] \in FinalStates =>
                /\ status'[s] = status[s]
                /\ readLog'[s] = readLog[s]
                /\ invoked'[s] = invoked[s]
          /\ (\E r \in Streams : status[r] = "RateLimited") =>
                (status[s] = "NotStarted" => status'[s] = "NotStarted")]_vars

C26_Witness ==
    /\ status[Catalog[1]] = "RateLimited"
    /\ readLog[Catalog[1]] # <<>>
    /\ status[Catalog[2]] = "NotStarted"
    /\ sync = "succeeded"

ActiveStreams == { s \in Streams : status[s] \in {"SlicingInProgress", "ReadingRecords"} }

Jobs == 1..MaxAttempts
FinalJobStates == {"JobComplete", "JobFailed", "Aborted"}

\* The states an Export Job may be seen in after state a: later ones of the chain
\* (a poll may miss the states the job passed between two polls).
LaterJobStates(a) ==
    IF a = "none" THEN {"Created"}
    ELSE IF a = "Created" THEN {"UploadComplete", "InProgress"} \cup FinalJobStates
    ELSE IF a = "UploadComplete" THEN {"InProgress"} \cup FinalJobStates
    ELSE IF a = "InProgress" THEN FinalJobStates
    ELSE {}

\* C27: the state of an Export Job moves only forward along Created ->
\* UploadComplete -> InProgress -> JobComplete | JobFailed | Aborted, never back and
\* never out of a final state; a results request is made only for a job in
\* JobComplete; a read whose job reported JobFailed or Aborted ends with the fatal
\* error, with no results request, no record and no fallback.
C27_JobLifeCycle ==
    [][/\ \A j \in Jobs :
             jobState'[j] # jobState[j] => jobState'[j] \in LaterJobStates(jobState[j])
       /\ fetchLog' # fetchLog => (attempt \in Jobs /\ jobState[attempt] = "JobComplete")
       /\ lastPoll' \in FailedStates =>
             /\ fetchLog' = <<>>
             /\ records' = <<>>
             /\ restReads' = 0
             /\ pc' \in {"delete", "done"}
             /\ pc' = "done" =>
                   /\ result' = "BulkFailed"
                   /\ errBody' = "Job for Account stream using BULK API was failed."]_vars

C27_Witness ==
    /\ attempt = 1
    /\ jobState[1] = "JobComplete"
    /\ nonTerminal = 2
    /\ polls = 3
    /\ fetchLog # <<>>
    /\ result = "ok"

\* C28: every job that was created is deleted remotely: a read that ended has left
\* no job behind, whether its pages were all consumed or the job failed or timed out,
\* and at most the job of the current attempt exists; no results request is made for
\* a job that was deleted, and a read that ends well deletes its job only after the
\* request for the last page; every job created is eventually deleted.
C28_EveryJobIsDeleted ==
    /\ [](pc = "done" => liveJobs = {})
    /\ [](liveJobs \subseteq {attempt})
    /\ [][/\ fetchLog' # fetchLog => attempt \in liveJobs
          /\ \A j \in liveJobs \ liveJobs' :
                jobState[j] = "JobComplete" =>
                    \/ Len(fetchLog) = numPages
                    \/ result' \in {"HttpError", "ParseError"}]_vars
    /\ \A j \in Jobs : [](j \in liveJobs => <>(j \notin liveJobs))

C28_Witness ==
    /\ pc = "done"
    /\ attempt = 2
    /\ abortedJobs = {1}
    /\ jobState[2] = "JobComplete"
    /\ result = "ok"
    /\ numPages >= 2
    /\ Len(fetchLog) = numPages
    /\ liveJobs = {}

(***************************************************************************)
(* Error handling                                                          *)
(***************************************************************************)
ErrorRaised == result \in {"HttpError", "ConfigError", "BulkFailed", "ParseError"}
DeadlinePassed == MaxAttempts \in abortedJobs

\* What a step of the read does with the errors that are not recovered from: a
\* non-terminal answer makes the read poll again, a rate-limit answer to a poll or to
\* a results request, a transient-auth answer, the deadline and a parse error end
\* the read with the error, and an ended read makes no further request.
ErrorsReachTheOrchestrator ==
    /\ (polls' # polls /\ lastPoll' \in NonTerminalStates) => pc' = "poll"
    /\ (lastPoll' = "REQUEST_LIMIT_EXCEEDED" \/ errBody' = "REQUEST_LIMIT_EXCEEDED") =>
          (pc' = "done" /\ result' = "HttpError")
    /\ lastPoll' = "TXN_SECURITY_METERING_ERROR" =>
          (pc' = "done" /\ result' = "ConfigError")
    /\ DeadlinePassed' =>
          (pc' \in {"delete", "done"} /\ (pc' = "done" => result' = "BulkFailed"))
    /\ errBody' = ParseErrorMessage => (pc' = "done" /\ result' = "ParseError")
    /\ ErrorRaised =>
          /\ polls' = polls
          /\ attempt' = attempt
          /\ fetchLog' = fetchLog
          /\ restReads' = restReads
          /\ result' = result

FailedResponse == IF loginResp.status # 200 THEN loginResp ELSE discoveryResp

KnownAuthenticationError ==
    /\ loginResp.status # 200
    /\ loginResp.kind = "oauth"
    /\ loginResp.text = "expired access/refresh token"

\* C32: check_connection raises only for a login error whose description is in the
\* authentication-error mapping, and then with the mapped message; every other
\* failed login or discovery gives (False, message), the message being 'API Call
\* limit is exceeded' for a REQUEST_LIMIT_EXCEEDED response and 'An error occurred: '
\* followed by the body of the response for any other error.
C32_CheckConnectionReportsFailure ==
    checkPc = "done" =>
        IF KnownAuthenticationError
        THEN /\ checkRet.raised
             /\ checkRet.msg = AuthenticationErrorMessageMapping[loginResp.text]
        ELSE /\ ~checkRet.raised
             /\ checkRet.ok = (FailedResponse.status = 200)
             /\ FailedResponse.status # 200 =>
                   IF FailedResponse.code = "REQUEST_LIMIT_EXCEEDED"
                   THEN checkRet.msg = "API Call limit is exceeded"
                   ELSE /\ checkRet.msg = "An error occurred: "
                        /\ checkRet.body = FailedResponse

C32_Witness ==
    /\ checkPc = "done"
    /\ loginResp.status = 200
    /\ discoveryResp.code = "REQUEST_LIMIT_EXCEEDED"
    /\ checkRet = Returned(FALSE, "API Call limit is exceeded", NoBody)

(***************************************************************************)
(* State of an incremental bulk sync at the end of a slice                 *)
(***************************************************************************)
\* Slice k of stream s has been read to its end.
SliceDone(s, k) == slice[s] > k \/ status[s] = "Completed"
\* Records of s read in the slices up to k, and the cursors of those of slice k.
ReadUpTo(s, k) == Cardinality({i \in 1..Len(readLog[s]) : readLog[s][i].slice <= k})
CursorsOfSlice(s, k) ==
    {readLog[s][i].cursor : i \in {j \in 1..Len(readLog[s]) : readLog[s][j].slice = k}}
\* State messages of s emitted with exactly the records of the slices up to k read.
StatesAfterSlice(s, k) == {p \in StatePositions(s) : RecordsBefore(s, p) = ReadUpTo(s, k)}
Greatest(S) == CHOOSE m \in S : \A v \in S : v <= m
\* The cursor saved when slice k begins: the state the sync started from, or the
\* state emitted after the slice before.
RECURSIVE SavedBefore(_, _)
SavedBefore(s, k) ==
    IF k = 1 THEN StartState[s]
    ELSE IF \E c \in CursorsOfSlice(s, k - 1) : c > SliceEnd(k - 1) THEN SliceEnd(k - 1)
    ELSE Greatest(CursorsOfSlice(s, k - 1) \cup {SavedBefore(s, k - 1)})

\* C34: the state emitted after a slice never exceeds the end of the slice: it is
\* the end of the slice when a record of the slice carries a later cursor, and
\* otherwise the greatest cursor seen so far (the saved cursor and the cursors of
\* the records of the slice).
C34_StateCappedAtSliceEnd ==
    \A s \in Streams : \A k \in 1..NumSlices :
        SliceDone(s, k) =>
            /\ StatesAfterSlice(s, k) # {}
            /\ \A p \in StatesAfterSlice(s, k) :
                  /\ out[p].value <= SliceEnd(k)
                  /\ out[p].value =
                        IF \E c \in CursorsOfSlice(s, k) : c > SliceEnd(k)
                        THEN SliceEnd(k)
                        ELSE Greatest(CursorsOfSlice(s, k) \cup {SavedBefore(s, k)})

C34_Witness ==
    \E s \in Streams :
        /\ status[s] = "Completed"
        /\ \E c \in CursorsOfSlice(s, 1) : c > SliceEnd(1)
        /\ CursorsOfSlice(s, 2) # {}
        /\ \A c \in CursorsOfSlice(s, 2) : c < SliceEnd(1)

(***************************************************************************)
(* Stream slices                                                           *)
(***************************************************************************)
\* C33: the time slices partition the interval from the start point (the saved
\* cursor when there is one, else start_date) up to now: the first starts at the
\* start point, each ends at the earlier of now and its start plus
\* STREAM_SLICE_STEP, each next one starts where the one before ended, none is
\* empty, and the last ends at now; there is no slice only when the start point is
\* not before now.
C33_TimeSlicesPartitionTheInterval ==
    slPc # "slicing" =>
        LET from == IF savedCursor # NoCursor THEN savedCursor ELSE startDate
            n == Len(timeSlices)
        IN /\ (n = 0) = (from >= now)
           /\ n > 0 =>
                 /\ timeSlices[1].start_date = from
                 /\ timeSlices[n].end_date = now
           /\ \A i \in 1..n :
                 /\ timeSlices[i].start_date < timeSlices[i].end_date
                 /\ timeSlices[i].end_date =
                       Min(now, timeSlices[i].start_date + StreamSliceStep)
           /\ \A i \in 1..(n - 1) :
                 timeSlices[i + 1].start_date = timeSlices[i].end_date

C33_Witness ==
    /\ slPc # "slicing"
    /\ savedCursor # NoCursor
    /\ savedCursor > startDate
    /\ Len(timeSlices) = 2
    /\ timeSlices[2].end_date < timeSlices[2].start_date + StreamSliceStep

RECURSIVE FlattenParents(_)
FlattenParents(ss) ==
    IF ss = <<>> THEN <<>> ELSE Head(ss).parents \o FlattenParents(Tail(ss))

\* C35: the slices of a sub-stream hold the parent records in the order they were
\* read, every one exactly once and none dropped; no slice is empty, and every slice
\* but the last holds exactly SLICE_BATCH_SIZE parents, the last at most that many.
C35_ParentsBatchedInOrder ==
    /\ FlattenParents(subSlices) \o batch = [i \in 1..parentsRead |-> i]
    /\ \A i \in 1..Len(subSlices) :
          /\ Len(subSlices[i].parents) >= 1
          /\ Len(subSlices[i].parents) <= batchSize
          /\ i < Len(subSlices) => Len(subSlices[i].parents) = batchSize
    /\ slPc = "done" => batch = <<>>
    /\ slPc # "done" => \A i \in 1..Len(subSlices) : Len(subSlices[i].parents) = batchSize

C35_Witness ==
    /\ slPc = "done"
    /\ batchSize = 2
    /\ parentsRead = 3
    /\ Len(subSlices) = 2
    /\ subSlices[2].parents = <<3>>

(***************************************************************************)
(* Claims about the DeclarativeComponentFactory (checked under SpecFactory)*)
(***************************************************************************)
Built(v) == v.kind \in {"object", "definition"}

HasKey(v, k) == v.kind = "dict" /\ k \in DOMAIN v.d

ObjectDefinition(v) == HasKey(v, "class_name") \/ HasKey(v, "type")

\* the keys of a mapping that hold its sub-definitions
Fields(v) == DOMAIN v.d \ {"class_name", "type", "options", "config"}

OptionsOf(v) ==
    IF v.kind \in {"dict", "object", "definition"} /\ "options" \in DOMAIN v.d
    THEN v.d["options"].d
    ELSE EmptyDict

\* the class a definition that is no list has to be built from, "" when it has
\* to come back as it is
ClassFor(definition, key, parent) ==
    IF HasKey(definition, "class_name") THEN "A"
    ELSE IF HasKey(definition, "type") THEN "B"
    ELSE IF definition.kind = "dict" /\ key = "f" /\ parent \in {"A", "B", "DefaultF"}
    THEN "DefaultF"
    ELSE ""

HandledAsOne(definition, made, key, parent) ==
    IF ClassFor(definition, key, parent) # ""
    THEN Built(made) /\ made.s = ClassFor(definition, key, parent)
    ELSE made = definition

Handled(definition, made, key, parent) ==
    IF definition.kind = "list"
    THEN /\ made.kind = "list"
         /\ Len(made.l) = Len(definition.l)
         /\ \A i \in 1..Len(definition.l) :
               HandledAsOne(definition.l[i], made.l[i], key, parent)
    ELSE HandledAsOne(definition, made, key, parent)

\* C36: a sub-definition is handled by the first case that applies: a mapping with
\* class_name is built from the class of that name, also when it has a type; a
\* mapping with only a type from the class registered for the type; a mapping with
\* neither from the default implementation of the parent constructor's type hint
\* when there is one and comes back as it is otherwise; a list is handled element
\* by element; anything else comes back unchanged.
C36_SubcomponentCases ==
    (facPc = "created" /\ Built(component)) =>
        \A key \in Fields(passed) :
            LET child == passed.d[key]
                made == component.d[key]
            IN  /\ Handled(child, made, key, component.s)
                /\ (child.kind = "dict" /\ Built(made)) =>
                      \A k2 \in Fields(child) :
                          Handled(child.d[k2], made.d[k2], k2, made.s)

C36_Witness ==
    /\ facPc = "created"
    /\ component.kind = "object"
    /\ \E key \in Fields(passed) :
          /\ HasKey(passed.d[key], "class_name")
          /\ HasKey(passed.d[key], "type")
          /\ component.d[key].kind = "object"
          /\ component.d[key].s = "A"

\* {**p, **c}
Handed(p, c) == [k \in DOMAIN p \cup DOMAIN c |-> IF k \in DOMAIN c THEN c[k] ELSE p[k]]

C38_ListElementsGetEnclosingOptions ==
    (facPc = "created" /\ Built(component)) =>
        \A key \in Fields(passed) :
            LET child == passed.d[key]
                made == component.d[key]
            IN  child.kind = "list" =>
                  /\ made.kind = "list"
                  /\ Len(made.l) = Len(child.l)
                  /\ \A i \in 1..Len(child.l) :
                        ObjectDefinition(child.l[i]) =>
                          /\ Built(made.l[i])
                          /\ made.l[i].s = ClassFor(child.l[i], key, component.s)
                          /\ OptionsOf(made.l[i]) =
                                Handed(OptionsOf(passed), OptionsOf(child.l[i]))

\* C39: resolve returns a copy of the definition with class_name set to the
\* resolved class and leaves the mapping of the caller as it was; create_component
\* leaves the mapping it is handed as it was.
C39_CallerDefinitionUnchanged ==
    /\ facPc = "resolved" =>
          /\ componentDefinition = passed
          /\ HasKey(resolved, "class_name")
          /\ Without(resolved.d, "class_name") = Without(passed.d, "class_name")
          /\ resolved.d["class_name"] =
                IF HasKey(passed, "class_name") THEN passed.d["class_name"]
                ELSE IF HasKey(passed, "type") THEN Class("B")
                ELSE Class("dict")
    /\ facPc = "created" =>
          IF resolved = NoneValue THEN componentDefinition = passed ELSE resolved = passed

(***************************************************************************)
(* Claims about ComponentConstructor.build (checked under SpecConstructor) *)
(***************************************************************************)
\* C40: build resolves the dependencies before it constructs: resolve_dependencies
\* is called once, with the model, config, dependency_constructor, additional_flags
\* and keyword arguments build was given; the one instance that is created is
\* created after that call from exactly the mapping it returned; and when
\* resolve_dependencies raises no instance is created.
C40_DependenciesResolvedBeforeConstruction ==
    /\ Len(resolveCalls) <= 1
    /\ ccPc \in {"resolving", "resolved", "built", "failed"} =>
          /\ Len(resolveCalls) = 1
          /\ resolveCalls[1].model = buildArgs.model
          /\ resolveCalls[1].config = buildArgs.config
          /\ resolveCalls[1].dependency_constructor = buildArgs.dependency_constructor
          /\ resolveCalls[1].additional_flags = buildArgs.additional_flags
          /\ resolveCalls[1].kwargs = buildArgs.kwargs
    /\ instances # <<>> =>
          /\ ccPc = "built"
          /\ Len(resolveCalls) = 1
          /\ Len(instances) = 1
          /\ instances[1].kwargs = resolvedDependencies
    /\ ccPc = "built" => Len(instances) = 1
    /\ ccRaised = "resolve_dependencies" => instances = <<>>

C40_Witness ==
    /\ ccPc = "built"
    /\ Len(resolveCalls) = 1
    /\ resolveCalls[1].additional_flags = "flags"
    /\ resolvedDependencies = [name |-> "b", parser |-> "p"]
    /\ instances = <<[kwargs |-> [name |-> "b", parser |-> "p"]]>>

====
